---------------------------- MODULE Spec2Model ----------------------------
(***************************************************************************)
(* Market Health API (PugarHuda/market-health): the result cache           *)
(* (utils/cache.ts), the live-data store (services/StreamingService.ts)    *)
(* and the request handlers (routes/*.routes.ts) as state machines.        *)
(*                                                                         *)
(* Strings the code inspects character by character (market identifiers,   *)
(* the `markets` query parameter, cache keys) are sequences of one-char    *)
(* strings, so that split, trim, sort, join and the two identifier         *)
(* patterns are computed the way the code computes them.                   *)
(***************************************************************************)
EXTENDS Integers, Sequences, FiniteSets, TLC

VARIABLES
    now,            \* Date.now(), in milliseconds
    store,          \* Cache.store : key -> CacheEntry (a Map; DOMAIN = keys present)
    stats,          \* Cache.stats : hits, misses, sets
    lastOp,         \* observation: the last Cache operation called and what it returned
    lastSet,        \* observation: per key, the arguments of the last Cache.set not
                    \*   followed by a delete or clear of that key
    orderbooks,     \* StreamStore.orderbooks : marketId -> OrderbookData
    trades,         \* StreamStore.trades : marketId -> Trade[]
    activeStreams,  \* StreamingService.activeStreams : the stream keys present
    callbacks,      \* StreamingService.callbacks : stream key -> callback[]
    subscriptions,  \* per stream key, the SDK subscriptions opened and still delivering
    delivered,      \* observation: the callbacks invoked for the last update pushed
    streamOps,      \* observation: how many StreamingService events happened
    pushed,         \* observation: per market, how many trades the stream has pushed
    stoppedKeys,    \* observation: the stream keys stopped by stopStream or
                    \*   stopAllStreams and not started since
    reqs,           \* the requests: each handler's locals, position and response
    input,          \* the arguments of the analyzer or aggregator call under study
    output          \* what the call returned (Null before the call)

cacheVars  == <<store, stats>>
obsVars    == <<lastOp, lastSet>>
streamVars == <<orderbooks, trades, activeStreams, callbacks, subscriptions,
                delivered, streamOps, pushed, stoppedKeys>>
apiVars    == <<reqs>>
calcVars   == <<input, output>>
vars       == <<now, store, stats, lastOp, lastSet,
                orderbooks, trades, activeStreams, callbacks, subscriptions,
                delivered, streamOps, pushed, stoppedKeys, reqs, input, output>>

---------------------------------------------------------------------------
(* Bounds of the model *)

MaxTicks == 3       \* how many times the clock advances
MaxApiTicks == 2    \* how many times the clock advances while requests are served
MaxAnswers == 6     \* how many upstream calls are answered while requests are served
MaxOps   == 4       \* how many cache operations are called
MaxSeq   == 2       \* largest order-book sequence number pushed
MaxStreamOps == 5   \* how many StreamingService events happen
MaxSubs  == 2       \* SDK subscriptions opened per stream key
MaxCallbacks == 2   \* callbacks registered per stream key
MaxPushes == 102    \* how many trades the streams push, all markets together
MaxTrades == 3      \* how many trades the volatility analyzer is given

---------------------------------------------------------------------------
(* Generic helpers *)

Null == [null |-> TRUE]                 \* JavaScript null / undefined

Min(a, b) == IF a < b THEN a ELSE b
Max(a, b) == IF a > b THEN a ELSE b

\* Map.prototype.set
MapSet(m, k, v) == [x \in DOMAIN m \cup {k} |-> IF x = k THEN v ELSE m[x]]
\* Map.prototype.delete
MapDelete(m, k) == [x \in DOMAIN m \ {k} |-> m[x]]
\* new Map() / Map.prototype.clear
EmptyMap == [x \in {} |-> Null]

---------------------------------------------------------------------------
(* The clock *)

cacheTTL == 30                          \* config.cacheTTL, seconds
TtlMs    == cacheTTL * 1000

\* The clock moves by a short step or by a whole default time-to-live, so that
\* ages land exactly on, below and above an entry's ttl.
TickMs    == 500
TickSteps == {TickMs, TtlMs}
Ticks(t)  == (t \div TtlMs) + ((t % TtlMs) \div TickMs)

Tick(d) ==
    /\ Ticks(now) < MaxTicks
    /\ now' = now + d

---------------------------------------------------------------------------
(* Cache (utils/cache.ts) *)

\* `${kind}:${id}` -- the kind never holds a colon, so the pair is the string
Key(kind, id) == [kind |-> kind, id |-> id]

\* CacheEntry<T>
CacheEntry(data, timestamp, ttl) == [data |-> data, timestamp |-> timestamp, ttl |-> ttl]

\* get / cleanup: `Date.now() - entry.timestamp > entry.ttl`
ExpiredNever(entry) == FALSE
Expired(entry) == now - entry.timestamp > entry.ttl

\* Cache.set: the new store and counters
CacheSetKeepsFirst(key, data, ttlSeconds) ==
    [store |-> IF key \in DOMAIN store THEN store
               ELSE MapSet(store, key, CacheEntry(data, now, ttlSeconds * 1000)),
     stats |-> [stats EXCEPT !.sets = @ + 1],
     ret   |-> Null]
CacheSet(key, data, ttlSeconds) ==
    [store |-> MapSet(store, key, CacheEntry(data, now, ttlSeconds * 1000)),
     stats |-> [stats EXCEPT !.sets = @ + 1],
     ret   |-> Null]

\* Cache.get: the new store and counters, and the value returned
CacheGetCountsMiss(key) ==
    IF key \notin DOMAIN store
    THEN [store |-> store, stats |-> [stats EXCEPT !.misses = @ + 1], ret |-> Null]
    ELSE IF Expired(store[key])
    THEN [store |-> MapDelete(store, key),
          stats |-> [stats EXCEPT !.misses = @ + 1], ret |-> Null]
    ELSE [store |-> store, stats |-> [stats EXCEPT !.misses = @ + 1],
          ret |-> store[key].data]
CacheGetKeepsExpired(key) ==
    IF key \notin DOMAIN store
    THEN [store |-> store, stats |-> [stats EXCEPT !.misses = @ + 1], ret |-> Null]
    ELSE IF Expired(store[key])
    THEN [store |-> store,
          stats |-> [stats EXCEPT !.misses = @ + 1], ret |-> Null]
    ELSE [store |-> store, stats |-> [stats EXCEPT !.hits = @ + 1],
          ret |-> store[key].data]
CacheGet(key) ==
    IF key \notin DOMAIN store
    THEN [store |-> store, stats |-> [stats EXCEPT !.misses = @ + 1], ret |-> Null]
    ELSE IF Expired(store[key])
    THEN [store |-> MapDelete(store, key),
          stats |-> [stats EXCEPT !.misses = @ + 1], ret |-> Null]
    ELSE [store |-> store, stats |-> [stats EXCEPT !.hits = @ + 1],
          ret |-> store[key].data]

\* Cache.delete: Map.delete tells whether the key was present
CacheDelete(key) ==
    [store |-> MapDelete(store, key), stats |-> stats,
     ret |-> [deleted |-> key \in DOMAIN store]]

\* Cache.clear
CacheClear == [store |-> EmptyMap, stats |-> stats, ret |-> Null]

\* Cache.cleanup: drops every entry that is expired now
CacheCleanupInclusive ==
    [store |-> [k \in {x \in DOMAIN store :
                        now - store[x].timestamp < store[x].ttl} |-> store[k]],
     stats |-> stats, ret |-> Null]
CacheCleanup ==
    [store |-> [k \in {x \in DOMAIN store : ~Expired(store[x])} |-> store[k]],
     stats |-> stats, ret |-> Null]

\* Cache.getStats
getStats ==
    LET total == stats.hits + stats.misses
    IN  [hits |-> stats.hits, misses |-> stats.misses, sets |-> stats.sets,
         total |-> total, size |-> Cardinality(DOMAIN store)]

---------------------------------------------------------------------------
(* Strings, as the characters the code sees *)

Digits   == {"0", "1", "2", "3", "4", "5", "6", "7", "8", "9"}
Upper    == {"A", "B", "C", "D", "E", "F", "G", "H", "I", "J", "K", "L", "M",
             "N", "O", "P", "Q", "R", "S", "T", "U", "V", "W", "X", "Y", "Z"}
Lower    == {"a", "b", "c", "d", "e", "f", "g", "h", "i", "j", "k", "l", "m",
             "n", "o", "p", "q", "r", "s", "t", "u", "v", "w", "x", "y", "z"}
HexChars == Digits \cup {"a", "b", "c", "d", "e", "f", "A", "B", "C", "D", "E", "F"}

\* UTF-16 code units of the characters the model uses
CharCode(c) ==
    CASE c = " " -> 32  [] c = "," -> 44  [] c = "-" -> 45  [] c = "/" -> 47
      [] c = "0" -> 48  [] c = "A" -> 65  [] c = "B" -> 66  [] c = "C" -> 67
      [] c = "a" -> 97  [] c = "b" -> 98  [] c = "x" -> 120

Rep(c, n) == [i \in 1..n |-> c]

\* String comparison of Array.prototype.sort without a comparator: by code
\* unit at the first difference, a proper prefix first
StrLess(a, b) ==
    LET n     == Min(Len(a), Len(b))
        diffs == {i \in 1..n : a[i] # b[i]}
    IN  IF diffs = {} THEN Len(a) < Len(b)
        ELSE LET i == CHOOSE d \in diffs : \A e \in diffs : d <= e
             IN  CharCode(a[i]) < CharCode(b[i])

\* Array.prototype.sort(): ascending, stable
RECURSIVE InsertSorted(_, _)
InsertSorted(x, sorted) ==
    IF sorted = <<>> THEN <<x>>
    ELSE IF StrLess(x, Head(sorted)) THEN <<x>> \o sorted
    ELSE <<Head(sorted)>> \o InsertSorted(x, Tail(sorted))

RECURSIVE SortStrings(_)
SortStrings(ids) ==
    IF ids = <<>> THEN <<>>
    ELSE InsertSorted(ids[Len(ids)], SortStrings(SubSeq(ids, 1, Len(ids) - 1)))

\* String.prototype.split(','): the pieces between the commas, always at
\* least one piece
Split(str) ==
    LET commas == {i \in 1..Len(str) : str[i] = ","}
        \* the position of the k-th comma; 0 before the first, Len+1 after the last
        At(k) == IF k = 0 THEN 0
                 ELSE IF k > Cardinality(commas) THEN Len(str) + 1
                 ELSE CHOOSE i \in commas : Cardinality({j \in commas : j < i}) = k - 1
    IN  [k \in 1..(Cardinality(commas) + 1) |-> SubSeq(str, At(k - 1) + 1, At(k) - 1)]

\* Array.prototype.join(',')
RECURSIVE Join(_)
Join(ids) ==
    IF ids = <<>> THEN <<>>
    ELSE IF Len(ids) = 1 THEN ids[1]
    ELSE ids[1] \o <<",">> \o Join(Tail(ids))

\* String.prototype.trim()
RECURSIVE TrimStart(_)
TrimStart(str) ==
    IF str # <<>> /\ Head(str) = " " THEN TrimStart(Tail(str)) ELSE str

RECURSIVE TrimEnd(_)
TrimEnd(str) ==
    IF str # <<>> /\ str[Len(str)] = " "
    THEN TrimEnd(SubSeq(str, 1, Len(str) - 1)) ELSE str

Trim(str) == TrimEnd(TrimStart(str))

\* Market identifiers used as inputs
HexA     == <<"0", "x">> \o Rep("a", 64)    \* a 0x + 64 hex digit address
HexB     == <<"0", "x">> \o Rep("B", 64)    \* another one, upper-case digits
TickerAB == <<"A", "-", "B">>               \* a BASE-QUOTE ticker
Hex63    == <<"0", "x">> \o Rep("a", 63)    \* one hex digit short
NoDash   == <<"A", "B">>                    \* a ticker without the dash

---------------------------------------------------------------------------
(* Validators (utils/validators.ts, routes/compare.routes.ts) *)

AlNum == Digits \cup Upper \cup Lower       \* [A-Z0-9] under the /i flag

\* /^0x[a-fA-F0-9]{64}$/
hexPattern(val) ==
    /\ Len(val) = 66
    /\ val[1] = "0" /\ val[2] = "x"
    /\ \A i \in 3..66 : val[i] \in HexChars

\* /^[A-Z0-9]+-[A-Z0-9]+$/i
tickerPattern(val) ==
    \E i \in 2..(Len(val) - 1) :
        /\ val[i] = "-"
        /\ \A j \in (1..Len(val)) \ {i} : val[j] \in AlNum

\* marketIdSchema, and marketIdParamSchema which wraps it
marketIdSchema(val) == hexPattern(val) \/ tickerPattern(val)

\* compareSchema: z.string().min(1).refine(2 <= val.split(',').length <= 5)
compareSchema(val) ==
    /\ Len(val) >= 1
    /\ LET ids == Split(val) IN Len(ids) >= 2 /\ Len(ids) <= 5

---------------------------------------------------------------------------
(* HealthService (services/HealthService.ts) and RiskService                *)
(* (services/RiskService.ts).  spreadPercent is carried in hundredths of a  *)
(* percent, so 0.1% is 10 and 5.0% is 500; weights are in hundredths.       *)
(* The code sums in double precision: on the inputs of this model that sum  *)
(* rounds as the exact sum does, except for the risk factors listed in      *)
(* RiskSumBelowHalf.                                                        *)

\* Math.round(Math.max(0, Math.min(100, weighted / 100))): halves round up
RoundClampFloor(weighted100) == Max(0, Min(10000, weighted100)) \div 100
RoundClamp(weighted100) == (Max(0, Min(10000, weighted100)) + 50) \div 100

\* HealthService.calculateSpreadScore
calculateSpreadScoreInclusive(spreadPercent) ==
    IF spreadPercent <= 10 THEN 100
    ELSE IF spreadPercent <= 50 THEN 80
    ELSE IF spreadPercent <= 100 THEN 60
    ELSE IF spreadPercent <= 200 THEN 40
    ELSE IF spreadPercent <= 500 THEN 20
    ELSE 10
calculateSpreadScore(spreadPercent) ==
    IF spreadPercent < 10 THEN 100
    ELSE IF spreadPercent < 50 THEN 80
    ELSE IF spreadPercent < 100 THEN 60
    ELSE IF spreadPercent < 200 THEN 40
    ELSE IF spreadPercent < 500 THEN 20
    ELSE 10

\* HealthService.calculateOverallScore
calculateOverallScoreInverted(components) ==
    RoundClamp(components.liquidity * 35 + (100 - components.volatility) * 25
               + components.volume * 25 + components.spread * 15)
calculateOverallScore(components) ==
    RoundClamp(components.liquidity * 35 + components.volatility * 25
               + components.volume * 25 + components.spread * 15)

\* HealthService.determineStatus
determineStatus(score) ==
    IF score >= 70 THEN "HEALTHY"
    ELSE IF score >= 40 THEN "WARNING"
    ELSE "CRITICAL"

\* HealthService.generateRecommendation: the template chosen, whether it
\* carries the extreme-volatility caveat, and the issues it lists
generateRecommendation(status, components, volatilityLevel) ==
    LET issues ==
            (IF components.liquidity < 50 THEN <<"low liquidity">> ELSE <<>>)
         \o (IF components.volatility < 50 THEN <<"high volatility">> ELSE <<>>)
         \o (IF components.volume < 50 THEN <<"low volume">> ELSE <<>>)
         \o (IF components.spread < 50 THEN <<"wide spread">> ELSE <<>>)
    IN  IF status = "HEALTHY"
        THEN [template |-> "HEALTHY", caveat |-> volatilityLevel = "EXTREME",
              issues |-> <<>>]
        ELSE [template |-> status, caveat |-> FALSE, issues |-> issues]

\* HealthService.calculateHealth
calculateHealth(liquidity, volatility, volume) ==
    LET components == [liquidity  |-> liquidity.score,
                       volatility |-> volatility.score,
                       volume     |-> volume.score,
                       spread     |-> calculateSpreadScore(liquidity.spreadPercent)]
        score  == calculateOverallScore(components)
        status == determineStatus(score)
    IN  [score |-> score, status |-> status, components |-> components,
         recommendation |-> generateRecommendation(status, components, volatility.level),
         timestamp |-> now]

\* RiskService.calculateLiquidityRisk / calculateVolatilityRisk / calculateVolumeRisk
calculateLiquidityRisk(liquidity)   == 100 - liquidity.score
calculateVolatilityRisk(volatility) == 100 - volatility.score
calculateVolumeRisk(volume)         == 100 - volume.score

\* RiskService.calculateSpreadRisk
calculateSpreadRiskLinear(liquidity) == liquidity.spreadPercent \div 5
calculateSpreadRisk(liquidity) ==
    IF liquidity.spreadPercent < 10 THEN 10
    ELSE IF liquidity.spreadPercent < 50 THEN 30
    ELSE IF liquidity.spreadPercent < 100 THEN 50
    ELSE IF liquidity.spreadPercent < 200 THEN 70
    ELSE 90

\* The factors <<liquidityRisk, volatilityRisk, spreadRisk, volumeRisk>> among
\* the inputs of this model whose exact weighted sum is a half and whose
\* double-precision sum falls just below it (e.g. 31 * 0.35 + 82 * 0.30 +
\* 10 * 0.20 + 87 * 0.15 = 50.49999999999999, rounded to 50)
RiskSumBelowHalf ==
    {<<4, 79, 10, 16>>, <<4, 79, 50, 16>>,
     <<30, 82, 10, 16>>, <<30, 82, 30, 16>>, <<30, 82, 50, 16>>,
     <<30, 82, 70, 16>>, <<30, 82, 90, 16>>,
     <<31, 82, 10, 27>>, <<31, 82, 30, 27>>, <<31, 82, 50, 27>>,
     <<31, 82, 70, 27>>, <<31, 82, 90, 27>>,
     <<31, 82, 10, 87>>, <<31, 82, 30, 87>>, <<31, 82, 50, 87>>,
     <<31, 82, 70, 87>>}

\* RiskService.calculateOverallRiskScore
calculateOverallRiskScoreHealthWeights(factors) ==
    RoundClamp(factors.liquidityRisk * 35 + factors.volatilityRisk * 25
               + factors.spreadRisk * 15 + factors.volumeRisk * 25)
calculateOverallRiskScore(factors) ==
    LET weighted == factors.liquidityRisk * 35 + factors.volatilityRisk * 30
                    + factors.spreadRisk * 20 + factors.volumeRisk * 15
    IN  RoundClamp(IF <<factors.liquidityRisk, factors.volatilityRisk,
                         factors.spreadRisk, factors.volumeRisk>> \in RiskSumBelowHalf
                   THEN weighted - 1
                   ELSE weighted)

\* RiskService.classifyRiskLevel
classifyRiskLevel(score) ==
    IF score < 25 THEN "LOW"
    ELSE IF score < 50 THEN "MEDIUM"
    ELSE IF score < 75 THEN "HIGH"
    ELSE "EXTREME"

\* RiskService.generateWarnings
generateWarningsIndependent(factors, liquidity, volatility, volume) ==
       (IF factors.liquidityRisk > 70 THEN <<"very low liquidity">> ELSE <<>>)
    \o (IF factors.liquidityRisk > 50 THEN <<"low liquidity">> ELSE <<>>)
    \o (IF liquidity.spreadPercent > 200 THEN <<"extremely wide spread">> ELSE <<>>)
    \o (IF liquidity.spreadPercent > 100 THEN <<"wide spread">> ELSE <<>>)
    \o (IF volatility.level = "EXTREME" THEN <<"extreme volatility">> ELSE <<>>)
    \o (IF volatility.level = "HIGH" THEN <<"high volatility">> ELSE <<>>)
    \o (IF volume.tradeCount < 10 THEN <<"very low trading activity">> ELSE <<>>)
    \o (IF volume.volumeChange < -50 THEN <<"volume decrease">> ELSE <<>>)
    \o (IF liquidity.depth1Percent < 1000 THEN <<"shallow depth">> ELSE <<>>)
generateWarnings(factors, liquidity, volatility, volume) ==
       (IF factors.liquidityRisk > 70 THEN <<"very low liquidity">>
        ELSE IF factors.liquidityRisk > 50 THEN <<"low liquidity">> ELSE <<>>)
    \o (IF liquidity.spreadPercent > 200 THEN <<"extremely wide spread">>
        ELSE IF liquidity.spreadPercent > 100 THEN <<"wide spread">> ELSE <<>>)
    \o (IF volatility.level = "EXTREME" THEN <<"extreme volatility">>
        ELSE IF volatility.level = "HIGH" THEN <<"high volatility">> ELSE <<>>)
    \o (IF volume.tradeCount < 10 THEN <<"very low trading activity">> ELSE <<>>)
    \o (IF volume.volumeChange < -50 THEN <<"volume decrease">> ELSE <<>>)
    \o (IF liquidity.depth1Percent < 1000 THEN <<"shallow depth">> ELSE <<>>)

\* RiskService.calculateRisk
calculateRisk(liquidity, volatility, volume) ==
    LET factors == [liquidityRisk  |-> calculateLiquidityRisk(liquidity),
                    volatilityRisk |-> calculateVolatilityRisk(volatility),
                    spreadRisk     |-> calculateSpreadRisk(liquidity),
                    volumeRisk     |-> calculateVolumeRisk(volume)]
        riskScore == calculateOverallRiskScore(factors)
    IN  [score |-> riskScore, level |-> classifyRiskLevel(riskScore),
         factors |-> factors,
         warnings |-> generateWarnings(factors, liquidity, volatility, volume),
         timestamp |-> now]

---------------------------------------------------------------------------
(* LiquidityService (services/LiquidityService.ts).  A price level carries  *)
(* its price and quantity as decimal strings; parsed numbers are carried in *)
(* two-hundredths (19.95 is 3990), depths in whole units, the spread        *)
(* percent in hundredths of a percent.                                      *)

DigitOf(c) == CHOOSE d \in 0..9 : <<"0", "1", "2", "3", "4", "5", "6", "7", "8", "9">>[d + 1] = c

RECURSIVE DigitsValue(_)
DigitsValue(str) ==
    IF str = <<>> THEN 0
    ELSE DigitsValue(SubSeq(str, 1, Len(str) - 1)) * 10 + DigitOf(str[Len(str)])

\* parseFloat(str) for digits with at most two decimals, in two-hundredths
parseFloat(str) ==
    LET dot  == IF \E i \in 1..Len(str) : str[i] = "."
                THEN CHOOSE i \in 1..Len(str) : str[i] = "."
                ELSE Len(str) + 1
        frac == SubSeq(str, dot + 1, Len(str))
    IN  DigitsValue(SubSeq(str, 1, dot - 1)) * 200
        + (IF Len(frac) >= 1 THEN DigitOf(frac[1]) * 20 ELSE 0)
        + (IF Len(frac) >= 2 THEN DigitOf(frac[2]) * 2 ELSE 0)

\* orderbook.buys[0] ? parseFloat(orderbook.buys[0].price) : 0
bestPrice(levels) == IF levels # <<>> THEN parseFloat(levels[1].price) ELSE 0

\* LiquidityService.calculateMidPrice
calculateMidPrice(orderbook) ==
    LET bestBid == bestPrice(orderbook.buys)
        bestAsk == bestPrice(orderbook.sells)
    IN  IF bestBid = 0 \/ bestAsk = 0 THEN 0 ELSE (bestBid + bestAsk) \div 2

\* LiquidityService.calculateSpread: Math.abs(bestAsk - bestBid)
calculateSpread(orderbook) ==
    LET bestBid == bestPrice(orderbook.buys)
        bestAsk == bestPrice(orderbook.sells)
    IN  IF bestAsk >= bestBid THEN bestAsk - bestBid ELSE bestBid - bestAsk

\* levels.reduce((sum, level) => sum + parseFloat(level.quantity), 0)
RECURSIVE sumQuantity(_)
sumQuantity(levels) ==
    IF levels = <<>> THEN 0
    ELSE parseFloat(levels[1].quantity) + sumQuantity(Tail(levels))

\* LiquidityService.calculateDepth (quantities are whole; the depth in units)
calculateDepth(levels) == sumQuantity(levels) \div 200

\* LiquidityService.calculateDepthAtPercent, percent in hundredths (0.01 is 1):
\* buys at or above midPrice * (1 - percent), sells at or below
\* midPrice * (1 + percent)
calculateDepthAtPercent(orderbook, midPrice, percent) ==
    LET bids == SelectSeq(orderbook.buys,
                    LAMBDA level : parseFloat(level.price) * 100 >= midPrice * (100 - percent))
        asks == SelectSeq(orderbook.sells,
                    LAMBDA level : parseFloat(level.price) * 100 <= midPrice * (100 + percent))
    IN  (sumQuantity(bids) + sumQuantity(asks)) \div 200

\* Math.log10(depth + 1) in thousandths, for the depths of the books modelled
Log10Milli(depth) ==
    (
      0 :> 0 @@ 100 :> 2004 @@ 200 :> 2303 @@ 300 :> 2479 @@
      400 :> 2603 @@ 900 :> 2955 @@ 1000 :> 3000 @@ 1100 :> 3042 @@
      1200 :> 3080 @@ 1800 :> 3256 @@ 1900 :> 3279 @@ 2000 :> 3301 @@
      2700 :> 3432 @@ 2800 :> 3447 @@ 3600 :> 3556
    )[depth]

\* LiquidityService.calculateLiquidityScore: the weighted total in
\* hundred-thousandths, then Math.round(Math.max(0, Math.min(100, totalScore)))
calculateLiquidityScore(metrics) ==
    LET spreadScore == Max(0, 10000 - metrics.spreadPercent * 20)
        depthScore  == Min(100000, Log10Milli(metrics.totalDepth) * 20)
        depth1Score == Min(100000, Log10Milli(metrics.depth1Percent) * 25)
        depth5Score == Min(100000, Log10Milli(metrics.depth5Percent) * 20)
        totalScore  == spreadScore * 400 + depthScore * 30
                       + depth1Score * 15 + depth5Score * 15
    IN  (Max(0, Min(10000000, totalScore)) + 50000) \div 100000

\* LiquidityService.calculateLiquidity
calculateLiquidity(orderbook) ==
    LET midPrice      == calculateMidPrice(orderbook)
        spread        == calculateSpread(orderbook)
        spreadPercent == IF midPrice > 0 THEN (spread * 10000) \div midPrice ELSE 0
        bidDepth      == calculateDepth(orderbook.buys)
        askDepth      == calculateDepth(orderbook.sells)
        totalDepth    == bidDepth + askDepth
        depth1Percent == calculateDepthAtPercent(orderbook, midPrice, 1)
        depth5Percent == calculateDepthAtPercent(orderbook, midPrice, 5)
    IN  [score         |-> calculateLiquidityScore(
                               [totalDepth |-> totalDepth, spreadPercent |-> spreadPercent,
                                depth1Percent |-> depth1Percent,
                                depth5Percent |-> depth5Percent]),
         bidDepth      |-> bidDepth,
         askDepth      |-> askDepth,
         totalDepth    |-> totalDepth,
         depth1Percent |-> depth1Percent,
         depth5Percent |-> depth5Percent,
         spread        |-> spread,
         spreadPercent |-> spreadPercent,
         midPrice      |-> midPrice]

---------------------------------------------------------------------------
(* VolatilityService (services/VolatilityService.ts).  Prices, their mean   *)
(* and their standard deviation are carried in two-hundredths,              *)
(* volatilityPercent in hundredths of a percent.                            *)

\* VolatilityService.classifyVolatilityLevel
classifyVolatilityLevel(volatilityPercent) ==
    IF volatilityPercent < 100 THEN "LOW"
    ELSE IF volatilityPercent < 300 THEN "MODERATE"
    ELSE IF volatilityPercent < 700 THEN "HIGH"
    ELSE "EXTREME"

\* VolatilityService.calculateVolatilityScore
calculateVolatilityScore(volatilityPercent, level) ==
    RoundClamp(CASE level = "LOW"      -> 10000 - volatilityPercent * 10
                 [] level = "MODERATE" -> 8000 - (volatilityPercent - 100) * 15
                 [] level = "HIGH"     -> 5000 - (volatilityPercent - 300) * 8
                 [] level = "EXTREME"  -> Max(0, 3000 - (volatilityPercent - 700) * 3)
                 [] OTHER              -> 5000)

\* Math.sqrt, rounded down
RECURSIVE SqrtBetween(_, _, _)
SqrtBetween(x, lo, hi) ==
    IF lo = hi THEN lo
    ELSE LET mid == (lo + hi + 1) \div 2
         IN  IF mid * mid <= x THEN SqrtBetween(x, mid, hi)
             ELSE SqrtBetween(x, lo, mid - 1)

Sqrt(x) == SqrtBetween(x, 0, Min(x, 46340))

\* values.reduce((acc, val) => acc + val, 0)
RECURSIVE sumValues(_)
sumValues(values) ==
    IF values = <<>> THEN 0 ELSE values[1] + sumValues(Tail(values))

\* VolatilityService.calculatePriceChanges, in hundredths of a percent
\* (rounded down)
calculatePriceChanges(prices) ==
    [i \in 1..(Len(prices) - 1) |->
        ((prices[i + 1] - prices[i]) * 10000) \div prices[i]]

\* VolatilityService.calculateMean
calculateMean(values) ==
    IF Len(values) = 0 THEN 0 ELSE sumValues(values) \div Len(values)

\* values.map(value => Math.pow(value - mean, 2))
squaredDiffs(values, mean) ==
    [i \in 1..Len(values) |-> (values[i] - mean) * (values[i] - mean)]

\* VolatilityService.calculateStandardDeviation
calculateStandardDeviation(values, mean) ==
    IF Len(values) = 0 THEN 0
    ELSE Sqrt(calculateMean(squaredDiffs(values, mean)))

\* VolatilityService.getDefaultMetrics
getDefaultMetrics ==
    [score |-> 0, volatility |-> 0, volatilityPercent |-> 0, level |-> "LOW",
     priceChanges |-> <<>>, standardDeviation |-> 0, meanPrice |-> 0,
     timestamp |-> now]

\* trades.filter(trade => trade.executedAt >= cutoffTime)
recentTradesStrict(tradeList, cutoffTime) ==
    SelectSeq(tradeList, LAMBDA trade : trade.executedAt > cutoffTime)
recentTrades(tradeList, cutoffTime) ==
    SelectSeq(tradeList, LAMBDA trade : trade.executedAt >= cutoffTime)

\* recentTrades.map(t => parseFloat(t.positionDelta.executionPrice))
executionPrices(tradeList) ==
    [i \in 1..Len(tradeList) |-> parseFloat(tradeList[i].positionDelta.executionPrice)]

\* VolatilityService.calculateVolatility; Date.now() is the clock
calculateVolatility(tradeList, windowMinutes) ==
    LET windowMs   == windowMinutes * 60 * 1000
        cutoffTime == now - windowMs
        recent     == recentTrades(tradeList, cutoffTime)
    IN  IF Len(recent) = 0 THEN getDefaultMetrics
        ELSE LET prices            == executionPrices(recent)
                 priceChanges      == calculatePriceChanges(prices)
                 meanPrice         == calculateMean(prices)
                 standardDeviation == calculateStandardDeviation(prices, meanPrice)
                 volatility        == standardDeviation
                 volatilityPercent == IF meanPrice > 0
                                      THEN (volatility * 10000) \div meanPrice
                                      ELSE 0
                 level             == classifyVolatilityLevel(volatilityPercent)
             IN  [score |-> calculateVolatilityScore(volatilityPercent, level),
                  volatility |-> volatility,
                  volatilityPercent |-> volatilityPercent,
                  level |-> level,
                  priceChanges |-> priceChanges,
                  standardDeviation |-> standardDeviation,
                  meanPrice |-> meanPrice,
                  timestamp |-> now]


---------------------------------------------------------------------------
(* The cache on its own: every public method, called in any order *)

CacheKeys   == {Key("health", HexA), Key("risk", HexA)}
CacheData   == {[tag |-> "v1"], [tag |-> "v2"]}
TtlChoices  == {1, cacheTTL}
NoKey       == Key("", <<>>)

\* What the caller of the operation knows when it calls: whether a set of the
\* key is outstanding, and whether its time-to-live has run out
AgeCase(key) ==
    IF key \notin DOMAIN lastSet \/ lastSet[key] = Null THEN "unset"
    ELSE IF now - lastSet[key].at <= lastSet[key].ttlSeconds * 1000 THEN "within"
    ELSE "past"

Observe(op, key, r) ==
    [n |-> lastOp.n + 1, op |-> op, key |-> key, ret |-> r.ret,
     had |-> key \in DOMAIN store, age |-> AgeCase(key)]

Apply(r) == store' = r.store /\ stats' = r.stats

DoSet(key, data, ttlSeconds) ==
    /\ lastOp.n < MaxOps
    /\ LET r == CacheSet(key, data, ttlSeconds)
       IN  Apply(r) /\ lastOp' = Observe("set", key, r)
    /\ lastSet' = [lastSet EXCEPT ![key] =
                      [data |-> data, at |-> now, ttlSeconds |-> ttlSeconds]]
    /\ UNCHANGED <<now, streamVars, apiVars, calcVars>>

DoGet(key) ==
    /\ lastOp.n < MaxOps
    /\ LET r == CacheGet(key)
       IN  Apply(r) /\ lastOp' = Observe("get", key, r)
    /\ UNCHANGED <<now, lastSet, streamVars, apiVars, calcVars>>

DoDelete(key) ==
    /\ lastOp.n < MaxOps
    /\ LET r == CacheDelete(key)
       IN  Apply(r) /\ lastOp' = Observe("delete", key, r)
    /\ lastSet' = [lastSet EXCEPT ![key] = Null]
    /\ UNCHANGED <<now, streamVars, apiVars, calcVars>>

DoClear ==
    /\ lastOp.n < MaxOps
    /\ LET r == CacheClear
       IN  Apply(r) /\ lastOp' = Observe("clear", NoKey, r)
    /\ lastSet' = [k \in DOMAIN lastSet |-> Null]
    /\ UNCHANGED <<now, streamVars, apiVars, calcVars>>

\* setInterval(() => cache.cleanup(), 60000): the sweep may run at any time
DoCleanup ==
    /\ lastOp.n < MaxOps
    /\ LET r == CacheCleanup
       IN  Apply(r) /\ lastOp' = Observe("cleanup", NoKey, r)
    /\ UNCHANGED <<now, lastSet, streamVars, apiVars, calcVars>>

CacheTick(d) ==
    /\ Tick(d)
    /\ UNCHANGED <<cacheVars, obsVars, streamVars, apiVars, calcVars>>

---------------------------------------------------------------------------
(* StreamStore and StreamingService (services/StreamingService.ts) *)

StreamMarkets == {"m1", "m2"}
StreamTypes   == {"orderbook", "trades"}

\* `${type}:${marketId}`
StreamKey(type, marketId) == [type |-> type, marketId |-> marketId]
StreamKeys == {StreamKey(t, m) : t \in StreamTypes, m \in StreamMarkets}

MAX_TRADES_PER_MARKET == 100

\* StreamStore.setOrderbook
setOrderbook(marketId, orderbook) == MapSet(orderbooks, marketId, orderbook)

\* StreamStore.getOrderbook
getOrderbook(marketId) ==
    IF marketId \in DOMAIN orderbooks THEN orderbooks[marketId] ELSE Null

\* StreamStore.getTrades
getTrades(marketId) ==
    IF marketId \in DOMAIN trades THEN trades[marketId] ELSE <<>>

\* StreamStore.addTrade: unshift, then pop once when over the bound
addTradeKeepsAll(marketId, trade) ==
    MapSet(trades, marketId, <<trade>> \o getTrades(marketId))
addTrade(marketId, trade) ==
    LET unshifted == <<trade>> \o getTrades(marketId)
        existing  == IF Len(unshifted) > MAX_TRADES_PER_MARKET
                     THEN SubSeq(unshifted, 1, Len(unshifted) - 1)
                     ELSE unshifted
    IN  MapSet(trades, marketId, existing)

\* StreamStore.getActiveMarkets
getActiveMarkets == DOMAIN orderbooks \cup DOMAIN trades

\* The update pushed by the SDK: response.orderbook may be absent
Levels == {<<>>, <<[price |-> 1, quantity |-> 1]>>}
OrderbookResponses ==
    {[orderbook |-> Null]} \cup
    {[orderbook |-> [buys |-> b, sells |-> b, sequence |-> q]] :
        b \in Levels, q \in 0..MaxSeq}

\* streamOrderbook callback, lines 96-108: `response.orderbook?.x || default`
OrderbookOf(response) ==
    IF response.orderbook = Null
    THEN [buys |-> <<>>, sells |-> <<>>, sequence |-> 0]
    ELSE [buys |-> response.orderbook.buys, sells |-> response.orderbook.sells,
          sequence |-> response.orderbook.sequence]

\* A registered callback returns or throws
CallbackPool == {[id |-> 1, throws |-> FALSE], [id |-> 2, throws |-> TRUE]}

\* StreamingService.notifyCallbacks: forEach with a try/catch around each call;
\* the value is the list of callbacks invoked
notifyCallbacksUncaught(streamKey) ==
    LET cbs  == IF streamKey \in DOMAIN callbacks THEN callbacks[streamKey] ELSE <<>>
        last == IF \E i \in 1..Len(cbs) : cbs[i].throws
                THEN CHOOSE i \in 1..Len(cbs) :
                        cbs[i].throws /\ \A j \in 1..(i - 1) : ~cbs[j].throws
                ELSE Len(cbs)
    IN  [i \in 1..last |-> cbs[i].id]
notifyCallbacks(streamKey) ==
    LET cbs == IF streamKey \in DOMAIN callbacks THEN callbacks[streamKey] ELSE <<>>
    IN  [i \in 1..Len(cbs) |-> cbs[i].id]

StreamStep == streamOps < MaxStreamOps /\ streamOps' = streamOps + 1

\* StreamingService.streamOrderbook / streamTrades: nothing when the key is
\* active; else the SDK opens a subscription and the key is registered
StartStream(streamKey) ==
    /\ StreamStep
    /\ IF streamKey \in activeStreams
       THEN UNCHANGED <<activeStreams, subscriptions>>
       ELSE /\ subscriptions[streamKey] < MaxSubs
            /\ subscriptions' = [subscriptions EXCEPT ![streamKey] = @ + 1]
            /\ activeStreams' = activeStreams \cup {streamKey}
    /\ stoppedKeys' = stoppedKeys \ {streamKey}
    /\ UNCHANGED <<orderbooks, trades, callbacks, delivered>>
    /\ UNCHANGED <<now, cacheVars, obsVars, apiVars, pushed, calcVars>>

streamOrderbook(marketId) == StartStream(StreamKey("orderbook", marketId))
streamTrades(marketId)    == StartStream(StreamKey("trades", marketId))

\* The `callback` given to streamOrderbooksV2: any open subscription may push
OrderbookCallback(marketId, response) ==
    LET streamKey == StreamKey("orderbook", marketId)
    IN  /\ StreamStep
        /\ subscriptions[streamKey] > 0
        /\ orderbooks' = setOrderbook(marketId, OrderbookOf(response))
        /\ delivered' = notifyCallbacks(streamKey)
        /\ UNCHANGED <<trades, activeStreams, callbacks, subscriptions>>
        /\ UNCHANGED <<now, cacheVars, obsVars, apiVars, pushed, stoppedKeys, calcVars>>

\* The `callback` given to streamTrades: a response without a trade is ignored
TradeResponses == {[trade |-> Null]} \cup {[trade |-> [tradeId |-> i]] : i \in 1..2}

\* What the callback does with one response
TradesCallbackDoes(marketId, response) ==
    LET streamKey == StreamKey("trades", marketId)
    IN  /\ subscriptions[streamKey] > 0
        /\ IF response.trade # Null
           THEN /\ trades' = addTrade(marketId, response.trade)
                /\ delivered' = notifyCallbacks(streamKey)
                /\ pushed' = [pushed EXCEPT ![marketId] = @ + 1]
           ELSE UNCHANGED <<trades, delivered, pushed>>
        /\ UNCHANGED <<orderbooks, activeStreams, callbacks, subscriptions>>
        /\ UNCHANGED <<now, cacheVars, obsVars, apiVars, stoppedKeys, calcVars>>

TradesCallback(marketId, response) ==
    /\ StreamStep
    /\ TradesCallbackDoes(marketId, response)

\* A long run of trades: the n-th trade pushed for a market; the execution
\* times do not follow the order of arrival
TradeNo(n) == [tradeId |-> n, executedAt |-> 1000 + ((n * 7) % 10)]

TotalPushed == pushed["m1"] + pushed["m2"]

TradePush(marketId) ==
    /\ TotalPushed < MaxPushes
    /\ TradesCallbackDoes(marketId, [trade |-> TradeNo(pushed[marketId] + 1)])
    /\ UNCHANGED streamOps

\* onEndCallback: the subscription is over, the key is forgotten
onEndCallback(streamKey) ==
    /\ StreamStep
    /\ subscriptions[streamKey] > 0
    /\ subscriptions' = [subscriptions EXCEPT ![streamKey] = @ - 1]
    /\ activeStreams' = activeStreams \ {streamKey}
    /\ UNCHANGED <<orderbooks, trades, callbacks, delivered>>
    /\ UNCHANGED <<now, cacheVars, obsVars, apiVars, pushed, stoppedKeys, calcVars>>

\* onStatusCallback(error): the key is forgotten when there is an error;
\* whether the SDK goes on delivering after an error status is the SDK's choice
onStatusCallback(streamKey, error, over) ==
    /\ StreamStep
    /\ subscriptions[streamKey] > 0
    /\ IF error
       THEN /\ activeStreams' = activeStreams \ {streamKey}
            /\ subscriptions' = [subscriptions EXCEPT ![streamKey] =
                                    IF over THEN @ - 1 ELSE @]
       ELSE UNCHANGED <<activeStreams, subscriptions>>
    /\ UNCHANGED <<orderbooks, trades, callbacks, delivered>>
    /\ UNCHANGED <<now, cacheVars, obsVars, apiVars, pushed, stoppedKeys, calcVars>>

\* StreamingService.stopStream: the registered unsubscribe function only logs
StoppedKeys(keys) == keys \cap activeStreams

stopStream(marketId, type) ==
    LET stopped == StoppedKeys({StreamKey(type, marketId)})
    IN  /\ StreamStep
        /\ activeStreams' = activeStreams \ stopped
        /\ callbacks' = [k \in DOMAIN callbacks \ stopped |-> callbacks[k]]
        /\ UNCHANGED <<orderbooks, trades, subscriptions, delivered>>
        /\ stoppedKeys' = stoppedKeys \cup stopped
        /\ UNCHANGED <<now, cacheVars, obsVars, apiVars, pushed, calcVars>>

\* StreamingService.stopAllStreams(marketId)
stopAllStreamsOf(marketId) ==
    LET stopped == StoppedKeys({StreamKey(t, marketId) : t \in StreamTypes})
    IN  /\ StreamStep
        /\ activeStreams' = activeStreams \ stopped
        /\ callbacks' = [k \in DOMAIN callbacks \ stopped |-> callbacks[k]]
        /\ orderbooks' = MapDelete(orderbooks, marketId)
        /\ trades' = MapDelete(trades, marketId)
        /\ UNCHANGED <<subscriptions, delivered>>
        /\ stoppedKeys' = stoppedKeys \cup stopped
        /\ UNCHANGED <<now, cacheVars, obsVars, apiVars, pushed, calcVars>>

\* StreamingService.stopAllStreams()
stopAllStreams ==
    /\ StreamStep
    /\ activeStreams' = {}
    /\ callbacks' = EmptyMap
    /\ orderbooks' = EmptyMap
    /\ trades' = EmptyMap
    /\ UNCHANGED <<subscriptions, delivered>>
    /\ stoppedKeys' = stoppedKeys \cup activeStreams
    /\ UNCHANGED <<now, cacheVars, obsVars, apiVars, pushed, calcVars>>

\* StreamingService.onUpdate
onUpdate(marketId, type, callback) ==
    LET streamKey == StreamKey(type, marketId)
        existing  == IF streamKey \in DOMAIN callbacks THEN callbacks[streamKey] ELSE <<>>
    IN  /\ StreamStep
        /\ Len(existing) < MaxCallbacks
        /\ callbacks' = MapSet(callbacks, streamKey, Append(existing, callback))
        /\ UNCHANGED <<orderbooks, trades, activeStreams, subscriptions, delivered>>
        /\ UNCHANGED <<now, cacheVars, obsVars, apiVars, pushed, stoppedKeys, calcVars>>

NextStream ==
    \/ \E m \in StreamMarkets : streamOrderbook(m)
    \/ \E m \in StreamMarkets : streamTrades(m)
    \/ \E m \in StreamMarkets, r \in OrderbookResponses : OrderbookCallback(m, r)
    \/ \E m \in StreamMarkets, r \in TradeResponses : TradesCallback(m, r)
    \/ \E k \in StreamKeys : onEndCallback(k)
    \/ \E k \in StreamKeys, error \in BOOLEAN, over \in BOOLEAN :
          onStatusCallback(k, error, over)
    \/ \E m \in StreamMarkets, t \in StreamTypes : stopStream(m, t)
    \/ \E m \in StreamMarkets : stopAllStreamsOf(m)
    \/ stopAllStreams
    \/ \E m \in StreamMarkets, t \in StreamTypes, cb \in CallbackPool :
          onUpdate(m, t, cb)

NextTrades ==
    \/ \E m \in StreamMarkets : streamTrades(m)
    \/ \E m \in StreamMarkets : TradePush(m)

---------------------------------------------------------------------------
(* InjectiveService (services/InjectiveService.ts): what the indexer answers *)

MarketA == [marketId |-> HexA, ticker |-> "INJ/USDT"]
MarketB == [marketId |-> HexB, ticker |-> "ATOM/USDT"]

\* fetchMarkets: it fails, or it answers a market list
MarketsOutcomes ==
    {[ok |-> FALSE], [ok |-> TRUE, markets |-> <<MarketA, MarketB>>],
     [ok |-> TRUE, markets |-> <<MarketA>>]}

\* fetchOrderbookV2: it fails, or it answers an order book, told here by the
\* LiquidityMetrics that calculateLiquidity derives from it
OrderbookOutcomes ==
    {[ok |-> FALSE],
     [ok |-> TRUE, liquidity |-> [score |-> 85, spreadPercent |-> 5,
                                  totalDepth |-> 5000, depth1Percent |-> 2000]],
     [ok |-> TRUE, liquidity |-> [score |-> 40, spreadPercent |-> 100,
                                  totalDepth |-> 7, depth1Percent |-> 0]]}

\* fetchTrades: it fails, or it answers trades, told here by the
\* VolatilityMetrics and VolumeMetrics that the analyzers derive from them
TradesOutcomes ==
    {[ok |-> FALSE],
     [ok |-> TRUE,
      volatility |-> [score |-> 95, level |-> "LOW", volatilityPercent |-> 50],
      volume     |-> [score |-> 65, volume24h |-> 85000, tradeCount |-> 100,
                      volumeChange |-> 0]]}

\* InjectiveService.getMarket: markets.find(m => m.marketId === marketId) || null
RECURSIVE find(_, _)
find(markets, marketId) ==
    IF markets = <<>> THEN Null
    ELSE IF Head(markets).marketId = marketId THEN Head(markets)
    ELSE find(Tail(markets), marketId)

---------------------------------------------------------------------------
(* errorHandler (middleware/errorHandler.ts) *)

ZodError      == [name |-> "ZodError", message |-> "Invalid request parameters"]
NotFoundError == [name |-> "NotFoundError", message |-> "Market not found"]
UpstreamError(what) == [name |-> "Error", message |-> what]

errorHandler(error) ==
    IF error.name = "ZodError"
    THEN [status |-> 400, body |-> [error |-> "Validation Error"]]
    ELSE IF error.name = "NotFoundError"
    THEN [status |-> 404, body |-> [error |-> "Not Found", message |-> error.message]]
    ELSE [status |-> 500,
          body |-> [error |-> "Internal Server Error", message |-> error.message]]

---------------------------------------------------------------------------
(* The routes (routes/*.routes.ts) *)

\* The requests, named in their order of arrival
Reqs == {"r1", "r2"}
ArrivesBefore(q, r) == q = "r1" /\ r = "r2"

SingleKinds == {"health", "liquidity", "volatility", "volume", "risk"}

NeedsOrderbook(kind) == kind \in {"health", "risk", "liquidity", "compare"}
NeedsTrades(kind)    == kind \in {"health", "risk", "volatility", "volume", "compare"}

NoCalls == [get |-> 0, set |-> 0, markets |-> 0, orderbook |-> 0, trades |-> 0,
            analyze |-> 0]

IdleRequest ==
    [pc |-> "idle", kind |-> "", param |-> <<>>, marketIds |-> <<>>,
     cacheKey |-> NoKey, tasks |-> <<>>, status |-> 0, body |-> Null,
     calls |-> NoCalls, setAt |-> -1, recent |-> {}, answers |-> 0]

\* The state of one upstream call of a computation
Pending == [state |-> "pending"]
Unused  == [state |-> "unused"]
Failed  == [state |-> "failed"]

\* One per-market computation: awaiting getMarket
NewTask(marketId) ==
    [pc |-> "market", marketId |-> marketId, markets |-> Pending, market |-> Null,
     orderbook |-> Unused, trades |-> Unused, result |-> Null]

\* compare: marketsParam.split(',').map(id => id.trim())
marketIdsOf(param) ==
    LET ids == Split(param) IN [i \in 1..Len(ids) |-> Trim(ids[i])]

\* compare: `compare:${marketIds.sort().join(',')}` -- sort() sorts in place
compareCacheKeyUnsorted(marketIds) == Key("compare", Join(marketIds))
compareCacheKey(marketIds) == Key("compare", Join(SortStrings(marketIds)))

\* The handler answers: res.json(body) or errorHandler's response
Respond(req, status, body) ==
    [req EXCEPT !.pc = "done", !.status = status, !.body = body]

Fail(req, error) ==
    LET e == errorHandler(error) IN Respond(req, e.status, e.body)

\* A request record with some calls counted
Count(req, what, n) == [req EXCEPT !.calls[what] = @ + n]
Cached(req) == [Count(req, "set", 1) EXCEPT !.setAt = now]

\* The metrics object of a single-market route, once the data is there
SingleResponse(req, task) ==
    LET liquidity  == task.orderbook.data
        volatility == task.trades.volatility
        volume     == task.trades.volume
        envelope   == [marketId |-> task.marketId, ticker |-> task.market.ticker,
                       timestamp |-> now]
    IN  CASE req.kind = "health" ->
               [envelope |-> envelope,
                health |-> calculateHealth(liquidity, volatility, volume),
                components |-> [liquidity |-> liquidity.score,
                                volatility |-> volatility.score,
                                volume |-> volume.score]]
          [] req.kind = "risk" ->
               [envelope |-> envelope,
                risk |-> calculateRisk(liquidity, volatility, volume)]
          [] req.kind = "liquidity" ->
               [envelope |-> envelope, liquidity |-> liquidity]
          [] req.kind = "volatility" ->
               [envelope |-> envelope, volatility |-> volatility]
          [] req.kind = "volume" ->
               [envelope |-> envelope, volume |-> volume]

\* compare: the entry returned by one market's async function
CompareEntry(task) ==
    LET liquidity  == task.orderbook.data
        volatility == task.trades.volatility
        volume     == task.trades.volume
        health     == calculateHealth(liquidity, volatility, volume)
    IN  [marketId |-> task.marketId, ticker |-> task.market.ticker,
         health |-> [score |-> health.score, status |-> health.status,
                     components |-> health.components],
         liquidity |-> [score |-> liquidity.score, spread |-> liquidity.spreadPercent,
                        depth |-> liquidity.totalDepth],
         volatility |-> [score |-> volatility.score, level |-> volatility.level],
         volume |-> [score |-> volume.score, volume24h |-> volume.volume24h]]

ErrorEntry(marketId, message) == [marketId |-> marketId, error |-> message]

\* `c.error` is set (every message the code produces is non-empty)
HasError(c) == "error" \in DOMAIN c

\* The callback of the reduce:
\*     (current.health?.score || 0) > (best.health?.score || 0)
\* (a score of 0 and a missing score both count as 0)
scoreIsLower(best, current) == current.health.score < best.health.score
scoreIsHigher(best, current) == current.health.score > best.health.score

\* validComparisons.reduce((best, current) => ... ? current : best)
RECURSIVE reduceBest(_, _)
reduceBest(best, rest) ==
    IF rest = <<>> THEN best
    ELSE reduceBest(IF scoreIsHigher(best, Head(rest)) THEN Head(rest) ELSE best,
                    Tail(rest))

\* compare: lines 100-116
CompareResponse(req) ==
    LET comparisons == [i \in 1..Len(req.tasks) |-> req.tasks[i].result]
        validComparisons == SelectSeq(comparisons, LAMBDA c : ~HasError(c))
        bestMarket == IF Len(validComparisons) > 0
                      THEN reduceBest(Head(validComparisons), Tail(validComparisons))
                      ELSE Null
    IN  [count |-> Len(req.marketIds),
         comparisons |-> comparisons,
         bestMarket |-> IF bestMarket # Null /\ bestMarket.marketId # <<>>
                        THEN bestMarket.marketId ELSE Null,
         recommendation |-> IF bestMarket # Null THEN bestMarket.ticker
                            ELSE "No valid markets to compare",
         timestamp |-> now]

\* What a handler step leaves behind: the request and the cache
Outcome(req, cache) == [req |-> req, store |-> cache.store, stats |-> cache.stats]
Untouched == [store |-> store, stats |-> stats]

\* marketIdParamSchema.parse(req.params) / compareSchema.parse(req.query)
Validates(kind, param) ==
    IF kind = "compare" THEN compareSchema(param) ELSE marketIdSchema(param)

\* The identifiers and the cache key a handler works with
MarketIdsFor(kind, param) ==
    IF kind = "compare" THEN SortStrings(marketIdsOf(param)) ELSE <<param>>

CacheKeyFor(kind, param) ==
    IF kind = "compare" THEN compareCacheKey(marketIdsOf(param)) ELSE Key(kind, param)

\* A handler from its entry to its first await: parse, cache.get, and on a
\* miss one getMarket call per market (each one calls fetchMarkets)
HandlerEntry(req0) ==
    IF ~Validates(req0.kind, req0.param)
    THEN Outcome(Fail(req0, ZodError), Untouched)
    ELSE LET marketIds == MarketIdsFor(req0.kind, req0.param)
             cacheKey  == CacheKeyFor(req0.kind, req0.param)
             cached    == CacheGet(cacheKey)
             req1      == Count([req0 EXCEPT !.marketIds = marketIds,
                                             !.cacheKey = cacheKey], "get", 1)
         IN  IF cached.ret # Null
             THEN Outcome(Respond(req1, 200, cached.ret), cached)
             ELSE Outcome(Count([req1 EXCEPT
                                   !.pc = "waiting",
                                   !.tasks = [i \in 1..Len(marketIds) |->
                                                 NewTask(marketIds[i])]],
                                "markets", Len(marketIds)),
                          cached)

\* compare: when the last per-market promise settles, Promise.all resolves and
\* the handler builds the response, caches it and answers
SettleCachesValid(req) ==
    IF \A i \in 1..Len(req.tasks) : req.tasks[i].pc = "done"
    THEN LET body == CompareResponse(req)
         IN  IF \E i \in 1..Len(body.comparisons) : HasError(body.comparisons[i])
             THEN Outcome(Respond(req, 200, body), Untouched)
             ELSE Outcome(Cached(Respond(req, 200, body)),
                          CacheSet(req.cacheKey, body, cacheTTL))
    ELSE Outcome(req, Untouched)
Settle(req) ==
    IF \A i \in 1..Len(req.tasks) : req.tasks[i].pc = "done"
    THEN LET body == CompareResponse(req)
         IN  Outcome(Cached(Respond(req, 200, body)),
                     CacheSet(req.cacheKey, body, cacheTTL))
    ELSE Outcome(req, Untouched)

TaskDone(req, i, result) ==
    [req EXCEPT !.tasks[i].pc = "done", !.tasks[i].result = result]

\* An error thrown inside a per-market computation: compare catches it per
\* market (lines 90-96), a single-market handler passes it to errorHandler
TaskThrowsUncaught(req, i, error) == Outcome(Fail(req, error), Untouched)
TaskThrowsCaching(req, i, error) ==
    IF req.kind = "compare"
    THEN Settle(TaskDone(req, i, ErrorEntry(req.tasks[i].marketId, error.message)))
    ELSE LET failed == Fail(req, error)
         IN  Outcome(Cached(failed), CacheSet(req.cacheKey, failed.body, cacheTTL))
TaskThrows(req, i, error) ==
    IF req.kind = "compare"
    THEN Settle(TaskDone(req, i, ErrorEntry(req.tasks[i].marketId, error.message)))
    ELSE Outcome(Fail(req, error), Untouched)

\* getMarket answered null
MarketMissingUnnamed(req, i) ==
    IF req.kind = "compare"
    THEN Settle(TaskDone(req, i, ErrorEntry(req.tasks[i].marketId, "Market not found")))
    ELSE Outcome(Fail(req, UpstreamError("Market not found")), Untouched)
MarketMissing(req, i) ==
    IF req.kind = "compare"
    THEN Settle(TaskDone(req, i, ErrorEntry(req.tasks[i].marketId, "Market not found")))
    ELSE Outcome(Fail(req, NotFoundError), Untouched)

\* getMarket answered a market: getOrderbook and getTrades are called
FetchData(req, i, market) ==
    LET ob == NeedsOrderbook(req.kind)
        tr == NeedsTrades(req.kind)
        req1 == [req EXCEPT !.tasks[i].pc = "data",
                            !.tasks[i].market = market,
                            !.tasks[i].orderbook = IF ob THEN Pending ELSE Unused,
                            !.tasks[i].trades = IF tr THEN Pending ELSE Unused]
    IN  Outcome(Count(Count(req1, "orderbook", IF ob THEN 1 ELSE 0),
                      "trades", IF tr THEN 1 ELSE 0),
                Untouched)

\* All the data a computation awaits is there: the analyzers run; a
\* single-market handler caches its response and answers
Computed(req, i) ==
    LET task == req.tasks[i]
    IN  IF task.orderbook.state = "pending" \/ task.trades.state = "pending"
        THEN Outcome(req, Untouched)
        ELSE LET req1 == Count(req, "analyze", 1)
             IN  IF req.kind = "compare"
                 THEN Settle(TaskDone(req1, i, CompareEntry(task)))
                 ELSE LET body == SingleResponse(req1, task)
                      IN  Outcome(Cached(Respond(TaskDone(req1, i, body), 200, body)),
                                  CacheSet(req.cacheKey, body, cacheTTL))

Commit(r, o) ==
    /\ reqs' = [reqs EXCEPT ![r] = o.req]
    /\ store' = o.store
    /\ stats' = o.stats
    /\ UNCHANGED <<now, obsVars, streamVars, calcVars>>

\* Observation: the requests whose response was cached no longer ago than the
\* default time-to-live
RecentlyCached ==
    {q \in Reqs : reqs[q].setAt >= 0 /\ now - reqs[q].setAt <= cacheTTL * 1000}

\* router.get: a request arrives
Request(r, kind, param) ==
    /\ reqs[r].pc = "idle"
    /\ \A q \in Reqs : ArrivesBefore(q, r) => reqs[q].pc # "idle"
    /\ Commit(r, HandlerEntry([IdleRequest EXCEPT
                                 !.kind = kind, !.param = param,
                                 !.recent = RecentlyCached]))

\* A request for one of the single-market routes
SingleRequest(r, kind, param) == Request(r, kind, param)

\* A request for the compare route; in this model compare requests are served
\* one after the other
CompareRequest(r, param) ==
    /\ \A q \in Reqs : reqs[q].pc \in {"idle", "done"}
    /\ Request(r, "compare", param)

\* The upstream answers one call of request r
Answered(req) == [req EXCEPT !.answers = @ + 1]
Answers == reqs["r1"].answers + reqs["r2"].answers

\* fetchMarkets settles for one getMarket call
MarketsResolve(r, i, outcome) ==
    /\ reqs[r].pc = "waiting"
    /\ Answers < MaxAnswers
    /\ i \in 1..Len(reqs[r].tasks)
    /\ reqs[r].tasks[i].pc = "market"
    /\ LET req == Answered([reqs[r] EXCEPT !.tasks[i].markets =
                    IF outcome.ok THEN [state |-> "ok"] ELSE Failed])
           market == find(outcome.markets, req.tasks[i].marketId)
       IN  Commit(r, IF ~outcome.ok
                     THEN TaskThrows(req, i, UpstreamError("Failed to fetch markets"))
                     ELSE IF market = Null THEN MarketMissing(req, i)
                     ELSE FetchData(req, i, market))

\* fetchOrderbookV2 settles
OrderbookResolve(r, i, outcome) ==
    /\ reqs[r].pc = "waiting"
    /\ Answers < MaxAnswers
    /\ i \in 1..Len(reqs[r].tasks)
    /\ reqs[r].tasks[i].pc = "data"
    /\ reqs[r].tasks[i].orderbook.state = "pending"
    /\ LET req == Answered([reqs[r] EXCEPT !.tasks[i].orderbook =
                    IF outcome.ok THEN [state |-> "ok", data |-> outcome.liquidity]
                    ELSE Failed])
       IN  Commit(r, IF ~outcome.ok
                     THEN TaskThrows(req, i, UpstreamError("Failed to fetch orderbook"))
                     ELSE Computed(req, i))

\* fetchTrades settles
TradesResolve(r, i, outcome) ==
    /\ reqs[r].pc = "waiting"
    /\ Answers < MaxAnswers
    /\ i \in 1..Len(reqs[r].tasks)
    /\ reqs[r].tasks[i].pc = "data"
    /\ reqs[r].tasks[i].trades.state = "pending"
    /\ LET req == Answered([reqs[r] EXCEPT !.tasks[i].trades =
                    IF outcome.ok
                    THEN [state |-> "ok", volatility |-> outcome.volatility,
                          volume |-> outcome.volume]
                    ELSE Failed])
       IN  Commit(r, IF ~outcome.ok
                     THEN TaskThrows(req, i, UpstreamError("Failed to fetch trades"))
                     ELSE Computed(req, i))

\* setInterval(() => cache.cleanup(), 60000)
ApiCleanup ==
    /\ store' = CacheCleanup.store
    /\ stats' = CacheCleanup.stats
    /\ UNCHANGED <<now, obsVars, streamVars, apiVars, calcVars>>

ApiTick(d) ==
    /\ Tick(d)
    /\ Ticks(now) < MaxApiTicks
    /\ UNCHANGED <<cacheVars, obsVars, streamVars, apiVars, calcVars>>

\* The requests sent
SingleParams == {HexA, HexB, TickerAB, Hex63, NoDash}
CompareParams ==
    {Join(<<HexA, HexB>>), Join(<<HexB, HexA>>),
     Join(<<HexA, <<" ">> \o TickerAB>>),
     HexA, Join(<<HexA, <<>>>>),
     Join(<<NoDash, Hex63>>),
     Join(<<TickerAB, TickerAB, TickerAB, TickerAB, TickerAB, TickerAB>>),
     <<>>}

MaxTasks == 5        \* compareSchema admits no more than 5 pieces

ApiEvents ==
    \/ \E r \in Reqs, i \in 1..MaxTasks, o \in MarketsOutcomes : MarketsResolve(r, i, o)
    \/ \E r \in Reqs, i \in 1..MaxTasks, o \in OrderbookOutcomes : OrderbookResolve(r, i, o)
    \/ \E r \in Reqs, i \in 1..MaxTasks, o \in TradesOutcomes : TradesResolve(r, i, o)
    \/ ApiCleanup
    \/ \E d \in TickSteps : ApiTick(d)

NextSingle ==
    \/ \E r \in Reqs, kind \in SingleKinds, param \in SingleParams :
          SingleRequest(r, kind, param)
    \/ ApiEvents

NextCompare ==
    \/ \E r \in Reqs, param \in CompareParams : CompareRequest(r, param)
    \/ ApiEvents

---------------------------------------------------------------------------
(* The aggregators on their own: calculateHealth and calculateRisk applied  *)
(* to metrics the three analyzers can return                                *)

SpreadPercents  == {0, 9, 10, 49, 50, 99, 100, 199, 200, 499, 500, 1000}
LiquidityScores == {0, 20, 39, 40, 45, 60, 69, 70, 85, 96, 100}

\* LiquidityService.calculateLiquidityScore: 40% of the score is
\* max(0, 100 - spreadPercent * 20) and the three depth terms add 0 to 60;
\* here in ten-thousandths
SpreadTerm(spreadPercent) == Max(0, 10000 - spreadPercent * 20) * 40

LiquidityInputs ==
    {l \in [score : LiquidityScores, spreadPercent : SpreadPercents,
            totalDepth : {5000}, depth1Percent : {500, 2000}] :
        /\ l.score * 10000 + 5000 > SpreadTerm(l.spreadPercent)
        /\ l.score * 10000 - 5000 <= SpreadTerm(l.spreadPercent) + 600000}

\* VolatilityService.calculateVolatility: the metrics for a volatility percent,
\* and the default metrics of an empty window
VolatilityPercents == {0, 50, 99, 100, 200, 299, 300, 500, 699, 700, 1000, 1700}

VolatilityOf(volatilityPercent) ==
    LET level == classifyVolatilityLevel(volatilityPercent)
    IN  [score |-> calculateVolatilityScore(volatilityPercent, level),
         level |-> level, volatilityPercent |-> volatilityPercent]

VolatilityInputs ==
    {VolatilityOf(p) : p \in VolatilityPercents}
    \cup {[score |-> 0, level |-> "LOW", volatilityPercent |-> 0]}

\* VolumeService.calculateVolume: the default metrics of an empty window, and
\* metrics of 1 to 500 trades; volumeChange, a percent, is 0 unless the call
\* is given the trades of the previous period
VolumeInputs ==
    {[score |-> 0,  volume24h |-> 0,          tradeCount |-> 0,   volumeChange |-> 0],
     [score |-> 13, volume24h |-> 0,          tradeCount |-> 1,   volumeChange |-> 0],
     [score |-> 42, volume24h |-> 1000,       tradeCount |-> 9,   volumeChange |-> 0],
     [score |-> 62, volume24h |-> 90000,      tradeCount |-> 40,  volumeChange |-> 0],
     [score |-> 62, volume24h |-> 1000000,    tradeCount |-> 70,  volumeChange |-> -60],
     [score |-> 65, volume24h |-> 85000,      tradeCount |-> 100, volumeChange |-> 0],
     [score |-> 73, volume24h |-> 1000000,    tradeCount |-> 100, volumeChange |-> 0],
     [score |-> 84, volume24h |-> 1000000000, tradeCount |-> 500, volumeChange |-> 0]}

ScoreInputs ==
    [liquidity : LiquidityInputs, volatility : VolatilityInputs, volume : VolumeInputs]

NoResults == [health |-> Null, risk |-> Null]

\* healthService.calculateHealth(liquidity, volatility, volume)
CalculateHealth ==
    /\ output.health = Null
    /\ output' = [output EXCEPT !.health =
                     calculateHealth(input.liquidity, input.volatility, input.volume)]
    /\ UNCHANGED <<now, cacheVars, obsVars, streamVars, apiVars, input>>

\* riskService.calculateRisk(liquidity, volatility, volume)
CalculateRisk ==
    /\ output.risk = Null
    /\ output' = [output EXCEPT !.risk =
                     calculateRisk(input.liquidity, input.volatility, input.volume)]
    /\ UNCHANGED <<now, cacheVars, obsVars, streamVars, apiVars, input>>

NextScores ==
    \/ CalculateHealth
    \/ CalculateRisk

---------------------------------------------------------------------------
(* The liquidity analyzer on its own, and the aggregators on its result:    *)
(* order books of up to two levels a side around a price of 20.00           *)

BidPrices ==
    {<<"1", "9", ".", "0", "0">>,
     <<"1", "9", ".", "5", "0">>,
     <<"1", "9", ".", "7", "0">>,
     <<"1", "9", ".", "8", "5">>,
     <<"1", "9", ".", "9", "5">>,
     <<"1", "9", ".", "9", "8">>,
     <<"1", "9", ".", "9", "9">>}
AskPrices ==
    {<<"2", "0", ".", "0", "1">>,
     <<"2", "0", ".", "0", "2">>,
     <<"2", "0", ".", "0", "5">>,
     <<"2", "0", ".", "1", "5">>,
     <<"2", "0", ".", "3", "0">>,
     <<"2", "0", ".", "5", "0">>,
     <<"2", "1", ".", "0", "0">>}
Quantities == {<<"1", "0", "0">>, <<"9", "0", "0">>}

PriceLevels(prices) == [price : prices, quantity : Quantities]

\* The exchange lists buys from the highest price down, sells from the lowest up
BuySides ==
    {<<>>} \cup {<<l>> : l \in PriceLevels(BidPrices)}
    \cup {side \in {<<l1, l2>> : l1, l2 \in PriceLevels(BidPrices)} :
             parseFloat(side[2].price) < parseFloat(side[1].price)}
SellSides ==
    {<<>>} \cup {<<l>> : l \in PriceLevels(AskPrices)}
    \cup {side \in {<<l1, l2>> : l1, l2 \in PriceLevels(AskPrices)} :
             parseFloat(side[2].price) > parseFloat(side[1].price)}

\* The books whose spread percent is a whole number of hundredths.  On these
\* books the doubles of the code stand on the same side of every threshold as
\* the exact values (19.95 and 20.05 give 0.5000000000000071, not below 0.5),
\* and the double-precision liquidity score rounds as the one computed here.
WholeHundredths(orderbook) ==
    \/ calculateMidPrice(orderbook) = 0
    \/ (calculateSpread(orderbook) * 10000) % calculateMidPrice(orderbook) = 0

Orderbooks ==
    {b \in [buys : BuySides, sells : SellSides, sequence : {1}] : WholeHundredths(b)}

BookInputs ==
    [orderbook  : Orderbooks,
     volatility : {VolatilityOf(50)},
     volume     : {[score |-> 0,  volume24h |-> 0, tradeCount |-> 0, volumeChange |-> 0],
                   [score |-> 65, volume24h |-> 85000, tradeCount |-> 100,
                    volumeChange |-> 0]}]

NoBookResults == [liquidity |-> Null, health |-> Null, risk |-> Null]

\* liquidity.routes.ts: metrics = liquidityService.calculateLiquidity(orderbook)
CalculateLiquidity ==
    /\ output.liquidity = Null
    /\ output' = [output EXCEPT !.liquidity = calculateLiquidity(input.orderbook)]
    /\ UNCHANGED <<now, cacheVars, obsVars, streamVars, apiVars, input>>

\* health.routes.ts: liquidity = calculateLiquidity(orderbook);
\* health = healthService.calculateHealth(liquidity, volatility, volume)
CalculateBookHealth ==
    /\ output.health = Null
    /\ output' = [output EXCEPT !.health =
                     calculateHealth(calculateLiquidity(input.orderbook),
                                     input.volatility, input.volume)]
    /\ UNCHANGED <<now, cacheVars, obsVars, streamVars, apiVars, input>>

\* risk.routes.ts: liquidity = calculateLiquidity(orderbook);
\* risk = riskService.calculateRisk(liquidity, volatility, volume)
CalculateBookRisk ==
    /\ output.risk = Null
    /\ output' = [output EXCEPT !.risk =
                     calculateRisk(calculateLiquidity(input.orderbook),
                                   input.volatility, input.volume)]
    /\ UNCHANGED <<now, cacheVars, obsVars, streamVars, apiVars, input>>

NextBook ==
    \/ CalculateLiquidity
    \/ CalculateBookHealth
    \/ CalculateBookRisk

---------------------------------------------------------------------------
(* The volatility analyzer on its own: up to MaxTrades trades executed      *)
(* before the clock's origin, and a window of an hour or a minute           *)

ExecutionPrices ==
    {<<"1", "9", ".", "0", "0">>,
     <<"2", "0", ".", "0", "0">>,
     <<"2", "1", ".", "0", "0">>}

\* executedAt: just older than an hour, exactly an hour old, a minute old
ExecutedAts == {-3600001, -3600000, -60000}

TradeInputs ==
    [executedAt : ExecutedAts, positionDelta : [executionPrice : ExecutionPrices]]

TradeLists == UNION {[1..n -> TradeInputs] : n \in 0..MaxTrades}

\* The calls whose mean price, standard deviation and volatility percent are
\* whole in the units of this model.  On these calls the doubles of the code
\* give the level and the score computed here.
WholeVolatility(call) ==
    LET prices == executionPrices(recentTrades(call.trades,
                                               now - call.windowMinutes * 60 * 1000))
        n      == Len(prices)
        mean   == calculateMean(prices)
        diffs  == squaredDiffs(prices, mean)
        std    == calculateStandardDeviation(prices, mean)
    IN  n > 0 => /\ sumValues(prices) % n = 0
                 /\ sumValues(diffs) % n = 0
                 /\ std * std = calculateMean(diffs)
                 /\ (std * 10000) % mean = 0

VolatilityCalls == [trades : TradeLists, windowMinutes : {60, 1}]

\* volatilityService.calculateVolatility(trades, windowMinutes)
CalculateVolatility ==
    /\ output = Null
    /\ output' = calculateVolatility(input.trades, input.windowMinutes)
    /\ UNCHANGED <<now, cacheVars, obsVars, streamVars, apiVars, input>>

NextVolatility == CalculateVolatility

---------------------------------------------------------------------------
(* The volatility score on its own: two volatility percents, p1 <= p2 *)

PercentPairs ==
    {pair \in [p1 : VolatilityPercents, p2 : VolatilityPercents] : pair.p1 <= pair.p2}

\* classifyVolatilityLevel, then calculateVolatilityScore, for one of the two
ScoreVolatility(which) ==
    /\ output[which] = Null
    /\ output' = [output EXCEPT ![which] = VolatilityOf(input[which])]
    /\ UNCHANGED <<now, cacheVars, obsVars, streamVars, apiVars, input>>

NextVolatilityScore == \E which \in {"p1", "p2"} : ScoreVolatility(which)

---------------------------------------------------------------------------
(* Initial state: new Cache(), new StreamStore(), new StreamingService() *)

InitProgram ==
    /\ now = 0
    /\ store = EmptyMap
    /\ stats = [hits |-> 0, misses |-> 0, sets |-> 0]
    /\ lastOp = [n |-> 0, op |-> "none", key |-> NoKey, ret |-> Null,
                 had |-> FALSE, age |-> "unset"]
    /\ lastSet = [k \in CacheKeys |-> Null]
    /\ orderbooks = EmptyMap
    /\ trades = EmptyMap
    /\ activeStreams = {}
    /\ callbacks = EmptyMap
    /\ subscriptions = [k \in StreamKeys |-> 0]
    /\ delivered = <<>>
    /\ streamOps = 0
    /\ pushed = [m \in StreamMarkets |-> 0]
    /\ stoppedKeys = {}
    /\ reqs = [r \in Reqs |-> IdleRequest]

Init ==
    /\ InitProgram
    /\ input = Null
    /\ output = Null

\* The aggregators' inputs: any metrics the analyzers can return
InitScores ==
    /\ InitProgram
    /\ input \in ScoreInputs
    /\ output = NoResults

\* The liquidity analyzer's inputs: any of the order books
InitBook ==
    /\ InitProgram
    /\ input \in BookInputs
    /\ output = NoBookResults

\* The volatility analyzer's inputs: any of the calls
InitVolatility ==
    /\ InitProgram
    /\ input \in VolatilityCalls
    /\ WholeVolatility(input)
    /\ output = Null

\* The volatility score's inputs: any two percents in order
InitVolatilityScore ==
    /\ InitProgram
    /\ input \in PercentPairs
    /\ output = [p1 |-> Null, p2 |-> Null]

NextCache ==
    \/ \E key \in CacheKeys, data \in CacheData, ttl \in TtlChoices :
          DoSet(key, data, ttl)
    \/ \E key \in CacheKeys : DoGet(key)
    \/ \E key \in CacheKeys : DoDelete(key)
    \/ DoClear
    \/ DoCleanup
    \/ \E d \in TickSteps : CacheTick(d)

SpecCache == Init /\ [][NextCache]_vars

SpecStream == Init /\ [][NextStream]_vars

SpecTrades == Init /\ [][NextTrades]_vars

SpecSingle == Init /\ [][NextSingle]_vars

SpecCompare == Init /\ [][NextCompare]_vars

SpecScores == InitScores /\ [][NextScores]_vars

SpecBook == InitBook /\ [][NextBook]_vars

SpecVolatility == InitVolatility /\ [][NextVolatility]_vars

SpecVolatilityScore == InitVolatilityScore /\ [][NextVolatilityScore]_vars

---------------------------------------------------------------------------
(* Claims about the live-data store (checked under SpecStream) *)

\* C1: an order-book push whose sequence number is lower than or equal to the
\* sequence of the snapshot stored for the market is discarded: the stored
\* sequence never decreases, and the stored snapshot changes only to one with
\* a strictly higher sequence (a push without an order book counts as 0).
C1_StaleSnapshotDiscarded ==
    [][\A m \in StreamMarkets :
          (m \in DOMAIN orderbooks /\ m \in DOMAIN orderbooks')
          => /\ orderbooks'[m].sequence >= orderbooks[m].sequence
             /\ (orderbooks'[m] # orderbooks[m]
                 => orderbooks'[m].sequence > orderbooks[m].sequence)]_vars

\* C11: after any run of trade pushes for a market the stored history holds
\* at most 100 trades and is the last min(n, 100) of the n trades pushed,
\* newest first: every push is prepended, only the oldest entries are dropped
\* from the tail, and the list is never ordered by executedAt.
C11_TradeHistoryBounded ==
    \A m \in StreamMarkets :
       LET history == getTrades(m)
           n == pushed[m]
       IN  /\ Len(history) <= 100
           /\ Len(history) = Min(n, 100)
           /\ \A i \in 1..Len(history) : history[i] = TradeNo(n - i + 1)

\* C11 witness: more than 100 trades were pushed for a market, the history is
\* full, its oldest trade is no longer the first one pushed, and a trade
\* executed earlier stands before one executed later
C11_Witness ==
    \E m \in StreamMarkets :
       /\ pushed[m] > 100
       /\ Len(getTrades(m)) = 100
       /\ getTrades(m)[100].tradeId = pushed[m] - 99
       /\ \E i \in 1..99 :
             getTrades(m)[i].executedAt < getTrades(m)[i + 1].executedAt

---------------------------------------------------------------------------
(* Claims about the cache (checked under SpecCache) *)

\* C2: Cache.get never returns a value whose age -- the time of the get minus
\* the time of the set that stored it -- exceeds the time-to-live given to
\* that set; what it returns is the value of that set.
C2_NoReadPastTtl ==
    (lastOp.op = "get" /\ lastOp.ret # Null)
    => /\ lastOp.age = "within"
       /\ lastOp.ret = lastSet[lastOp.key].data

\* C2 witness: get was called on a key whose entry was still stored although
\* its time-to-live had run out
C2_Witness == lastOp.op = "get" /\ lastOp.age = "past" /\ lastOp.had

\* The step is a call of Cache.get
GetStep == lastOp'.n # lastOp.n /\ lastOp'.op = "get"

\* C3: a get(k) called while the age of the entry set for k is within its
\* time-to-live, with no set, delete or clear of k in between, returns exactly
\* the value set, adds one to hits and leaves misses, sets and the stored
\* entry as they were.
C3_FreshGetHits ==
    [][(GetStep /\ lastOp'.age = "within")
       => LET k == lastOp'.key
          IN  /\ lastOp'.ret = lastSet[k].data
              /\ stats'.hits = stats.hits + 1
              /\ stats'.misses = stats.misses
              /\ stats'.sets = stats.sets
              /\ k \in DOMAIN store /\ k \in DOMAIN store'
              /\ store'[k] = store[k]
              /\ store'[k] = CacheEntry(lastSet[k].data, lastSet[k].at,
                                        lastSet[k].ttlSeconds * 1000)]_vars

\* C3 witness: a get within the time-to-live, after the clock has moved
C3_Witness ==
    /\ lastOp.op = "get" /\ lastOp.age = "within"
    /\ lastSet[lastOp.key].at < now
    /\ lastOp.ret = [tag |-> "v2"]

\* C4: a get(k) called after the time-to-live of the entry set for k has run
\* out returns null, adds one to misses, leaves hits as they were, removes the
\* entry of k and leaves every other key's entry as it was.
C4_ExpiredGetMisses ==
    [][(GetStep /\ lastOp'.age = "past")
       => LET k == lastOp'.key
          IN  /\ lastOp'.ret = Null
              /\ stats'.misses = stats.misses + 1
              /\ stats'.hits = stats.hits
              /\ k \notin DOMAIN store'
              /\ DOMAIN store' = DOMAIN store \ {k}
              /\ \A j \in DOMAIN store' : store'[j] = store[j]]_vars

\* C4 witness: the expired entry was still stored when get was called, and
\* another key's entry is stored too
C4_Witness ==
    /\ lastOp.op = "get" /\ lastOp.age = "past" /\ lastOp.had
    /\ lastOp.ret = Null
    /\ DOMAIN store # {}

---------------------------------------------------------------------------
(* Claims about the compare route (checked under SpecCompare) *)

\* The compare requests whose handler missed the cache and computes
Computing == {r \in Reqs : reqs[r].kind = "compare" /\ reqs[r].tasks # <<>>}

\* How often x occurs in the sequence s
Occurrences(s, x) == Cardinality({i \in 1..Len(s) : s[i] = x})

\* s and t list the same identifiers, each as often
IsPermutation(s, t) ==
    /\ Len(s) = Len(t)
    /\ \A i \in 1..Len(s) : Occurrences(s, s[i]) = Occurrences(t, s[i])

\* The failure of a market's own calls: the message of the error thrown, or
\* "" when nothing has failed
OwnFailure(task) ==
    IF task.markets.state = "failed" THEN "Failed to fetch markets"
    ELSE IF task.markets.state = "ok" /\ task.market = Null THEN "Market not found"
    ELSE IF task.orderbook.state = "failed" THEN "Failed to fetch orderbook"
    ELSE IF task.trades.state = "failed" THEN "Failed to fetch trades"
    ELSE ""

\* The entry c reports what the market's own calls gave, and nothing else
IsOwnEntry(c, task) ==
    /\ c.marketId = task.marketId
    /\ IF OwnFailure(task) # ""
       THEN c = [marketId |-> task.marketId, error |-> OwnFailure(task)]
       ELSE /\ ~HasError(c)
            /\ c.ticker = task.market.ticker
            /\ c.health.score =
                  calculateHealth(task.orderbook.data, task.trades.volatility,
                                  task.trades.volume).score
            /\ c.liquidity.score = task.orderbook.data.score
            /\ c.volatility.score = task.trades.volatility.score
            /\ c.volume.score = task.trades.volume.score

\* C5: in a comparison request a failure for one market (market not found, or
\* the market list, order book or trades fetch failing) neither cancels nor
\* alters the other markets' computations: there is one computation per
\* requested identifier, the request never fails, it answers 200 exactly when
\* every computation has finished, and entry i of the response is market i's
\* own result or market i's own error.
C5_FailureIsolated ==
    \A r \in Computing :
       LET req == reqs[r]
       IN  /\ req.status \in {0, 200}
           /\ Len(req.tasks) = Len(Split(req.param))
           /\ IsPermutation([i \in 1..Len(req.tasks) |-> req.tasks[i].marketId],
                            marketIdsOf(req.param))
           /\ req.pc = "done" <=> \A i \in 1..Len(req.tasks) : req.tasks[i].pc = "done"
           /\ req.pc = "done"
              => /\ req.status = 200
                 /\ Len(req.body.comparisons) = Len(req.tasks)
                 /\ \A i \in 1..Len(req.tasks) :
                       IsOwnEntry(req.body.comparisons[i], req.tasks[i])

\* C5 witness: a comparison answered with one market's error next to the
\* other market's result
C5_Witness ==
    \E r \in Computing :
       /\ reqs[r].pc = "done"
       /\ Len(reqs[r].body.comparisons) = 2
       /\ \E i, j \in 1..2 :
             /\ HasError(reqs[r].body.comparisons[i])
             /\ reqs[r].body.comparisons[i].error = "Failed to fetch orderbook"
             /\ ~HasError(reqs[r].body.comparisons[j])
             /\ reqs[r].body.comparisons[j].health.score = 85

\* The compare requests answered with a comparison
Compared == {r \in Reqs : reqs[r].kind = "compare" /\ reqs[r].status = 200}

\* The entries of a comparison that carry no error
ValidEntries(body) ==
    {i \in 1..Len(body.comparisons) : ~HasError(body.comparisons[i])}

\* C6: bestMarket is the identifier of a market whose health score is the
\* maximum among the markets computed without error; it is null only when
\* every requested market failed.
C6_BestMarketIsMax ==
    \A r \in Compared :
       LET body == reqs[r].body
           valid == ValidEntries(body)
       IN  /\ body.bestMarket = Null <=> valid = {}
           /\ valid # {}
              => \E i \in valid :
                    /\ body.bestMarket = body.comparisons[i].marketId
                    /\ \A j \in valid : body.comparisons[j].health.score
                                        <= body.comparisons[i].health.score

\* C6 witness: markets of health 60 and 85, in this order, and the best market
\* is the second one
C6_Witness ==
    \E r \in Compared :
       LET body == reqs[r].body
       IN  /\ ValidEntries(body) = {1, 2}
           /\ body.comparisons[1].health.score = 60
           /\ body.comparisons[2].health.score = 85
           /\ body.bestMarket = body.comparisons[2].marketId
           /\ body.bestMarket = HexA

\* Request r arrived no later than the time-to-live after the response of
\* request q was cached, and asks for a permutation of q's identifiers
FollowsPermutation(r, q) ==
    /\ reqs[r].kind = "compare" /\ reqs[q].kind = "compare"
    /\ q \in reqs[r].recent
    /\ IsPermutation(marketIdsOf(reqs[r].param), marketIdsOf(reqs[q].param))

\* C7: two comparison requests whose identifier lists are permutations of one
\* another use the same cache key, and the second, arriving within the
\* time-to-live of the first one's cache entry, is answered with the first
\* one's response without any upstream fetch.
C7_PermutationsShareCache ==
    \A r, q \in Reqs :
       FollowsPermutation(r, q)
       => /\ reqs[r].cacheKey = reqs[q].cacheKey
          /\ reqs[r].pc = "done"
          /\ reqs[r].status = 200
          /\ reqs[r].body = reqs[q].body
          /\ reqs[r].tasks = <<>>
          /\ reqs[r].calls = [NoCalls EXCEPT !.get = 1]
          /\ reqs[r].answers = 0

\* C7 witness: the second request lists the identifiers in another order, and
\* arrives after the clock has moved
C7_Witness ==
    \E r, q \in Reqs :
       /\ FollowsPermutation(r, q)
       /\ reqs[r].param # reqs[q].param
       /\ reqs[q].setAt < now
       /\ reqs[r].status = 200

\* The identifiers a request carries
Identifiers(req) ==
    IF req.kind = "compare" THEN marketIdsOf(req.param) ELSE <<req.param>>

\* The identifier has neither the address form nor the ticker form
Malformed(id) == ~hexPattern(id) /\ ~tickerPattern(id)

\* The request failed with a Validation error and nothing was done for it
RejectedBeforeComputing(req) ==
    /\ req.pc = "done"
    /\ req.status = 400
    /\ req.body = [error |-> "Validation Error"]
    /\ req.calls = NoCalls
    /\ req.tasks = <<>>

\* C8: a request, single-market or comparison, carrying an identifier that has
\* neither the 0x-and-64-hex-digits form nor the BASE-QUOTE form fails with a
\* Validation error before any cache read or write, upstream fetch or
\* analyzer run.
C8_MalformedIdRejected ==
    \A r \in Reqs :
       (/\ reqs[r].pc # "idle"
        /\ \E i \in 1..Len(Identifiers(reqs[r])) : Malformed(Identifiers(reqs[r])[i]))
       => RejectedBeforeComputing(reqs[r])

\* The number of non-empty identifiers of a markets parameter
NonEmptyIds(param) ==
    Cardinality({i \in 1..Len(marketIdsOf(param)) : marketIdsOf(param)[i] # <<>>})

\* C9: a comparison request is accepted only when its markets parameter holds
\* 2 to 5 identifiers, counting only the non-empty ones; otherwise it is
\* rejected with a Validation error before any cache access or fetch.
C9_TwoToFiveIds ==
    \A r \in Reqs :
       (reqs[r].kind = "compare" /\ reqs[r].pc # "idle")
       => (NonEmptyIds(reqs[r].param) \notin 2..5
           => RejectedBeforeComputing(reqs[r]))

---------------------------------------------------------------------------
(* Claims about the single-market routes (checked under SpecSingle) *)

\* The market list was fetched and the identifier of the request is not in it
Unresolved(req) ==
    /\ req.kind \in SingleKinds
    /\ req.tasks # <<>>
    /\ req.tasks[1].markets.state = "ok"
    /\ req.tasks[1].market = Null

\* C10: a single-market request with a well-formed identifier that missed the
\* cache and does not resolve against the fetched market list fails with
\* NotFound (404): the market list was fetched once, neither the order book
\* nor the trades are fetched, no analyzer runs, and the step writes nothing
\* to the cache.
C10_NotFoundStops ==
    [][\A r \in Reqs :
          (reqs'[r] # reqs[r] /\ Unresolved(reqs'[r]))
          => /\ marketIdSchema(reqs'[r].param)
             /\ reqs'[r].pc = "done"
             /\ reqs'[r].status = 404
             /\ reqs'[r].body.error = "Not Found"
             /\ reqs'[r].calls = [NoCalls EXCEPT !.get = 1, !.markets = 1]
             /\ reqs'[r].setAt = -1
             /\ store' = store /\ stats' = stats]_vars

\* C10 witness: a request for an address the market list does not hold was
\* answered 404
C10_Witness ==
    \E r \in Reqs :
       /\ Unresolved(reqs[r])
       /\ reqs[r].param = HexB
       /\ reqs[r].status = 404
       /\ reqs[r].answers = 1

---------------------------------------------------------------------------
(* Claims about the aggregators (checked under SpecScores) *)

\* The weighted sum of the health components, in hundredths
WeightedHealth(c) ==
    35 * c.liquidity + 25 * c.volatility + 25 * c.volume + 15 * c.spread

\* score is the integer nearest to weighted100 / 100 clamped to [0, 100],
\* a half counting upwards
IsRounded(score, weighted100) ==
    LET clamped == IF weighted100 < 0 THEN 0
                   ELSE IF weighted100 > 10000 THEN 10000 ELSE weighted100
    IN  /\ score \in 0..100
        /\ 100 * score - 50 <= clamped
        /\ clamped < 100 * score + 50

C13_DocumentedStatus ==
    output.health # Null
    => LET h == output.health
       IN  /\ h.status = "HEALTHY" <=> (80 <= h.score /\ h.score <= 100)
           /\ h.status = "WARNING" <=> (50 <= h.score /\ h.score <= 79)
           /\ h.status = "CRITICAL" <=> (0 <= h.score /\ h.score <= 49)

\* The inputs that differ from i in one component score only, which is higher
\* (for the spread score: a lower spread percent with the same liquidity score)
RaisedInputs(i) ==
         {[i EXCEPT !.liquidity = l] : l \in
             {l \in LiquidityInputs : /\ l.spreadPercent = i.liquidity.spreadPercent
                                      /\ l.score > i.liquidity.score}}
    \cup {[i EXCEPT !.volatility = v] : v \in
             {v \in VolatilityInputs : v.score > i.volatility.score}}
    \cup {[i EXCEPT !.volume = v] : v \in
             {v \in VolumeInputs : v.score > i.volume.score}}
    \cup {[i EXCEPT !.liquidity = l] : l \in
             {l \in LiquidityInputs :
                 /\ l.score = i.liquidity.score
                 /\ calculateSpreadScore(l.spreadPercent)
                       > calculateSpreadScore(i.liquidity.spreadPercent)}}

HealthScoreOf(i) == calculateHealth(i.liquidity, i.volatility, i.volume).score

\* C14: the overall health score is monotonically non-decreasing in each of
\* its four component scores: raising one of liquidity, volatility, volume,
\* spread while the other three are held never lowers the rounded score.
C14_HealthMonotone ==
    output.health # Null
    => \A j \in RaisedInputs(input) : HealthScoreOf(j) >= output.health.score

\* C14 witness: one raised component leaves the rounded score where it was,
\* another one raises it
C14_Witness ==
    /\ output.health # Null
    /\ \E j \in RaisedInputs(input) : HealthScoreOf(j) = output.health.score
    /\ \E j \in RaisedInputs(input) : HealthScoreOf(j) > output.health.score

\* A crafted input: liquidity 60 with a spread of 5%, volatility 50, volume 65
CraftedInput ==
    [liquidity  |-> [score |-> 60, spreadPercent |-> 500,
                     totalDepth |-> 5000, depth1Percent |-> 2000],
     volatility |-> VolatilityOf(300),
     volume     |-> [score |-> 65, volume24h |-> 85000, tradeCount |-> 100,
                     volumeChange |-> 0]]

\* C15: the risk score is not the complement of the health score: on the
\* crafted input calculateRisk(...).score differs from
\* 100 - calculateHealth(...).score.
C15_RiskIsNotComplement ==
    (input = CraftedInput /\ output.health # Null /\ output.risk # Null)
    => output.risk.score # 100 - output.health.score

\* C15 witness: both aggregators ran on the crafted input; health is 51 and
\* risk is 52
C15_Witness ==
    /\ input = CraftedInput
    /\ output.health # Null /\ output.risk # Null
    /\ output.health.score = 51
    /\ output.risk.score = 52

\* C17: for analyzer scores in 0..100 and a non-negative spread percent, the
\* health score, the four health components, the risk score and the four
\* risk factors are integers in 0..100.
C17_ScoresInRange ==
    /\ output.health # Null
       => /\ output.health.score \in 0..100
          /\ \A k \in {"liquidity", "volatility", "volume", "spread"} :
                output.health.components[k] \in 0..100
    /\ output.risk # Null
       => /\ output.risk.score \in 0..100
          /\ \A k \in {"liquidityRisk", "volatilityRisk", "spreadRisk", "volumeRisk"} :
                output.risk.factors[k] \in 0..100

\* C17 witness: the worst metrics (all scores 0, spread 10%) give health 2 and
\* risk 98
C17_Witness ==
    /\ output.health # Null /\ output.risk # Null
    /\ input.liquidity.score = 0 /\ input.liquidity.spreadPercent = 1000
    /\ input.volatility.score = 0 /\ input.volume.score = 0
    /\ output.health.score = 2
    /\ output.risk.score = 98
    /\ output.risk.factors.liquidityRisk = 100

---------------------------------------------------------------------------
(* Claims about the liquidity analyzer (checked under SpecBook) *)

Str1995 == <<"1", "9", ".", "9", "5">>
Str2005 == <<"2", "0", ".", "0", "5">>

\* The book's best bid is 19.95 and its best ask is 20.05
HalfPercentBook ==
    /\ input.orderbook.buys # <<>> /\ input.orderbook.sells # <<>>
    /\ input.orderbook.buys[1].price = Str1995
    /\ input.orderbook.sells[1].price = Str2005

\* C16 as stated: an order book with best bid 19.95 and best ask 20.05 (mid
\* price 20.00, spread 0.10, spread percent exactly 0.5) is given spreadScore
\* 80 by the health aggregator and spreadRisk 30 by the risk aggregator.
C16_AsStated ==
    HalfPercentBook
    => /\ output.liquidity # Null
          => /\ output.liquidity.midPrice = 4000
             /\ output.liquidity.spread = 20
             /\ output.liquidity.spreadPercent = 50
       /\ output.health # Null => output.health.components.spread = 80
       /\ output.risk # Null => output.risk.factors.spreadRisk = 30

\* C16: an order book with best bid 19.95 and best ask 20.05 has mid price
\* 20.00, spread 0.10 and spread percent 0.5, and is given spreadScore 60 by
\* the health aggregator and spreadRisk 50 by the risk aggregator: the 80 / 30
\* bucket ends strictly below 0.5.
C16_HalfPercentBucket ==
    HalfPercentBook
    => /\ output.liquidity # Null
          => /\ output.liquidity.midPrice = 4000
             /\ output.liquidity.spread = 20
             /\ output.liquidity.spreadPercent = 50
       /\ output.health # Null => output.health.components.spread = 60
       /\ output.risk # Null => output.risk.factors.spreadRisk = 50

\* C16 witness: the book 19.95 x 100 / 20.05 x 100 after the three calls
C16_Witness ==
    /\ input.orderbook.buys = <<[price |-> Str1995, quantity |-> <<"1", "0", "0">>]>>
    /\ input.orderbook.sells = <<[price |-> Str2005, quantity |-> <<"1", "0", "0">>]>>
    /\ output.liquidity # Null /\ output.health # Null /\ output.risk # Null
    /\ output.liquidity.spreadPercent = 50
    /\ output.health.components.spread = 60
    /\ output.risk.factors.spreadRisk = 50

\* C18: for an order book in which buys is empty or sells is empty, the
\* liquidity analyzer returns midPrice = 0, spread = 0 and spreadPercent = 0,
\* whatever the prices on the non-empty side.
C18_EmptySideZeroes ==
    (output.liquidity # Null
       /\ (input.orderbook.buys = <<>> \/ input.orderbook.sells = <<>>))
    => /\ output.liquidity.midPrice = 0
       /\ output.liquidity.spread = 0
       /\ output.liquidity.spreadPercent = 0

---------------------------------------------------------------------------
(* Claims about the volatility analyzer (checked under SpecVolatility) *)

\* The trades of the call with executedAt >= now - window
InsideWindow ==
    SelectSeq(input.trades,
              LAMBDA t : t.executedAt >= now - input.windowMinutes * 60000)

RECURSIVE SumOfPrices(_)
SumOfPrices(ts) ==
    IF ts = <<>> THEN 0
    ELSE parseFloat(ts[1].positionDelta.executionPrice) + SumOfPrices(Tail(ts))

\* C19: the volatility analyzer uses only trades with executedAt >=
\* now - window: the result is the one of the trades inside the window alone
\* (its mean price is their mean, it has one price change per consecutive
\* pair of them), and when no trade lies inside the window, an empty input
\* included, it returns exactly the default metrics: score 0, level LOW,
\* standardDeviation 0, meanPrice 0 and empty priceChanges.
C19_OnlyWindowTrades ==
    output # Null
    => /\ output = calculateVolatility(InsideWindow, input.windowMinutes)
       /\ InsideWindow # <<>>
          => /\ output.meanPrice * Len(InsideWindow) = SumOfPrices(InsideWindow)
             /\ Len(output.priceChanges) = Len(InsideWindow) - 1
       /\ InsideWindow = <<>>
          => output = [score |-> 0, volatility |-> 0, volatilityPercent |-> 0,
                       level |-> "LOW", priceChanges |-> <<>>,
                       standardDeviation |-> 0, meanPrice |-> 0, timestamp |-> now]

\* C19 witness: a trade just outside the window, one exactly at its start and
\* one inside; the result is the one of the last two
C19_Witness ==
    /\ output # Null
    /\ input.windowMinutes = 60
    /\ Len(input.trades) = 3
    /\ input.trades[1].executedAt = -3600001
    /\ input.trades[2].executedAt = -3600000
    /\ input.trades[3].executedAt = -60000
    /\ input.trades[1].positionDelta.executionPrice = <<"2", "0", ".", "0", "0">>
    /\ input.trades[2].positionDelta.executionPrice = <<"1", "9", ".", "0", "0">>
    /\ input.trades[3].positionDelta.executionPrice = <<"2", "1", ".", "0", "0">>
    /\ output.meanPrice = 4000
    /\ output.standardDeviation = 200
    /\ output.volatilityPercent = 500
    /\ output.level = "HIGH"
    /\ output.score = 34

---------------------------------------------------------------------------
(* Claims about the stream callbacks (checked under SpecStream) *)

\* The callbacks registered for a stream key, in registration order
RegisteredIds(streamKey) ==
    IF streamKey \in DOMAIN callbacks
    THEN [i \in 1..Len(callbacks[streamKey]) |-> callbacks[streamKey][i].id]
    ELSE <<>>

\* C20: when an update is pushed for a (market, data-kind) pair, every
\* callback registered for the pair is invoked exactly once, in registration
\* order, even when an earlier callback throws; the store holds the update
\* afterwards, the registrations are kept and the stream stays active.
C20_EveryCallbackNotified ==
    [][/\ \A m \in StreamMarkets, r \in OrderbookResponses :
             OrderbookCallback(m, r)
             => /\ delivered' = RegisteredIds(StreamKey("orderbook", m))
                /\ m \in DOMAIN orderbooks' /\ orderbooks'[m] = OrderbookOf(r)
                /\ callbacks' = callbacks
                /\ activeStreams' = activeStreams
                /\ subscriptions' = subscriptions
       /\ \A m \in StreamMarkets, r \in TradeResponses :
             (r.trade # Null /\ TradesCallback(m, r))
             => /\ delivered' = RegisteredIds(StreamKey("trades", m))
                /\ m \in DOMAIN trades' /\ trades'[m][1] = r.trade
                /\ callbacks' = callbacks
                /\ activeStreams' = activeStreams
                /\ subscriptions' = subscriptions]_vars

\* C20 witness: a throwing callback registered before a returning one for an
\* active order book stream; the update was stored and both were invoked
C20_Witness ==
    \E m \in StreamMarkets :
       LET streamKey == StreamKey("orderbook", m)
       IN  /\ DOMAIN callbacks = {streamKey}
           /\ callbacks[streamKey] = <<[id |-> 2, throws |-> TRUE],
                                       [id |-> 1, throws |-> FALSE]>>
           /\ delivered = <<2, 1>>
           /\ streamKey \in activeStreams
           /\ m \in DOMAIN orderbooks

---------------------------------------------------------------------------
(* Claims about the volatility score (checked under SpecVolatilityScore) *)

\* C21: the volatility score declines with volatility across all four
\* levels: for volatility percents p1 <= p2 the score of p1 is greater than
\* or equal to the score of p2, the level boundaries at 1, 3 and 7 included.
C21_ScoreDeclines ==
    (output.p1 # Null /\ output.p2 # Null)
    => output.p1.score >= output.p2.score

---------------------------------------------------------------------------
(* More claims about the liquidity analyzer (checked under SpecBook) *)

\* The score the three depth terms give on their own: 30% of
\* min(100, 20 log10(totalDepth + 1)), 15% of min(100, 25 log10(depth1Percent + 1)),
\* 15% of min(100, 20 log10(depth5Percent + 1)), rounded
DepthTermsScore(metrics) ==
    LET term(depth, factor, weight) ==
            (IF Log10Milli(depth) * factor > 100000 THEN 100000
             ELSE Log10Milli(depth) * factor) * weight
    IN  (term(metrics.totalDepth, 20, 30) + term(metrics.depth1Percent, 25, 15)
         + term(metrics.depth5Percent, 20, 15) + 50000) \div 100000

\* C22: for an order book with empty buys or empty sells the liquidity score
\* is derived only from the depth terms, with no contribution from the spread
\* term, so a completely empty order book yields an all-zero result with
\* score 0.
C22_DepthTermsOnly ==
    (output.liquidity # Null
       /\ (input.orderbook.buys = <<>> \/ input.orderbook.sells = <<>>))
    => /\ output.liquidity.score = DepthTermsScore(output.liquidity)
       /\ (input.orderbook.buys = <<>> /\ input.orderbook.sells = <<>>)
          => /\ output.liquidity.score = 0
             /\ output.liquidity.totalDepth = 0
             /\ output.liquidity.midPrice = 0
             /\ output.liquidity.spread = 0
             /\ output.liquidity.spreadPercent = 0

---------------------------------------------------------------------------
(* More claims about the aggregators (checked under SpecScores) *)

\* The components of c whose sub-score is below 50, in the order liquidity,
\* volatility, volume, spread
WeakComponents(c) ==
    SelectSeq(<<"low liquidity", "high volatility", "low volume", "wide spread">>,
              LAMBDA issue :
                 \/ issue = "low liquidity" /\ c.liquidity < 50
                 \/ issue = "high volatility" /\ c.volatility < 50
                 \/ issue = "low volume" /\ c.volume < 50
                 \/ issue = "wide spread" /\ c.spread < 50)

\* C23: whenever the volatility level is EXTREME the health recommendation
\* carries the extreme-volatility caveat, whichever status selected the
\* template; for WARNING and CRITICAL the recommendation lists exactly the
\* components whose sub-score is below 50, in the order liquidity,
\* volatility, volume, spread.
C23_CaveatAndIssues ==
    output.health # Null
    => LET h == output.health
       IN  /\ input.volatility.level = "EXTREME" => h.recommendation.caveat
           /\ h.status \in {"WARNING", "CRITICAL"}
              => h.recommendation.issues = WeakComponents(h.components)

\* The nine warnings in the order of emission
WarningOrder ==
    <<"very low liquidity", "low liquidity", "extremely wide spread", "wide spread",
      "extreme volatility", "high volatility", "very low trading activity",
      "volume decrease", "shallow depth">>

\* The condition listed for a warning, read on its own
ListedCondition(w) ==
    LET r == output.risk.factors
    IN  \/ w = "very low liquidity" /\ r.liquidityRisk > 70
        \/ w = "low liquidity" /\ r.liquidityRisk > 50
        \/ w = "extremely wide spread" /\ input.liquidity.spreadPercent > 200
        \/ w = "wide spread" /\ input.liquidity.spreadPercent > 100
        \/ w = "extreme volatility" /\ input.volatility.level = "EXTREME"
        \/ w = "high volatility" /\ input.volatility.level = "HIGH"
        \/ w = "very low trading activity" /\ input.volume.tradeCount < 10
        \/ w = "volume decrease" /\ input.volume.volumeChange < -50
        \/ w = "shallow depth" /\ input.liquidity.depth1Percent < 1000

\* The same, with the milder tier of liquidity and of spread bounded above by
\* the stronger tier
TieredCondition(w) ==
    /\ ListedCondition(w)
    /\ w = "low liquidity" => output.risk.factors.liquidityRisk <= 70
    /\ w = "wide spread" => input.liquidity.spreadPercent <= 200

\* C24 as stated: each of the nine listed conditions produces its warning
\* exactly when it holds, regardless of the others, and the warnings appear in
\* the fixed order.
C24_AsStated ==
    output.risk # Null
    => output.risk.warnings = SelectSeq(WarningOrder, ListedCondition)

\* C24: the warnings appear in the fixed order, each at most once, and each
\* is produced exactly when its condition holds, where the liquidity tiers
\* and the spread tiers exclude one another: "low liquidity" exactly when
\* 50 < liquidityRisk <= 70 and "wide spread" exactly when
\* 1.0 < spreadPercent <= 2.0; the conditions of different groups are
\* independent.
C24_TieredWarnings ==
    output.risk # Null
    => output.risk.warnings = SelectSeq(WarningOrder, TieredCondition)

\* C24 witness: liquidity risk above 70, spread above 2%, EXTREME volatility,
\* a single trade and a shallow book: five warnings, none of the milder tier
C24_Witness ==
    /\ output.risk # Null
    /\ output.risk.factors.liquidityRisk > 70
    /\ input.liquidity.spreadPercent > 200
    /\ output.risk.warnings = <<"very low liquidity", "extremely wide spread",
                                "extreme volatility", "very low trading activity",
                                "shallow depth">>

---------------------------------------------------------------------------
(* C25: a stopped stream and the live-data store *)

\* What the store holds for a stream key: the snapshot or the trade history
StoredFor(streamKey) ==
    IF streamKey.type = "orderbook"
    THEN getOrderbook(streamKey.marketId)
    ELSE getTrades(streamKey.marketId)

\* What the getters return when the store holds nothing for the key
NothingStored(streamKey) == IF streamKey.type = "orderbook" THEN Null ELSE <<>>

\* C25: once stopStream or stopAllStreams has stopped a stream key, and until
\* the key is started again, no step changes what the store holds for it
\* other than clearing it, and a market whose two keys are stopped and that
\* getActiveMarkets does not list stays unlisted.
C25_StoppedStreamStoresNothing ==
    [][/\ \A streamKey \in stoppedKeys \cap stoppedKeys' :
             \/ StoredFor(streamKey)' = StoredFor(streamKey)
             \/ StoredFor(streamKey)' = NothingStored(streamKey)
       /\ \A m \in StreamMarkets :
             ( /\ \A t \in StreamTypes :
                     StreamKey(t, m) \in stoppedKeys \cap stoppedKeys'
               /\ m \notin getActiveMarkets )
             => m \notin getActiveMarkets']_vars

---------------------------------------------------------------------------
(* C26: one delivering subscription per stream key *)

\* C26: under any sequence of streamOrderbook/streamTrades, stopStream,
\* stopAllStreams, end and error events, each (market, data-kind) key has at
\* most one SDK subscription delivering updates, so that one trade sent by the
\* exchange reaches addTrade at most once.
C26_OneSubscriptionPerKey ==
    \A streamKey \in StreamKeys : subscriptions[streamKey] <= 1

---------------------------------------------------------------------------
(* C27: a single-market request that ends in an error *)

\* The step on which request r answers with an error
EndsInError(r) ==
    /\ reqs[r].pc # "done"
    /\ reqs'[r].pc = "done"
    /\ reqs'[r].status # 200

\* C27: the step on which a single-market request answers with an error
\* (400, 404 or 500) leaves the cache entries and the set counter unchanged,
\* and the request has made no Cache.set call: only a 200 response is written.
C27_ErrorLeavesCache ==
    [][\A r \in Reqs :
          EndsInError(r)
          => /\ store' = store
             /\ stats'.sets = stats.sets
             /\ reqs'[r].calls.set = 0]_vars

\* C27 witness: r1 missed the cache and ended in an upstream failure, and r2,
\* for the same key, missed in its turn and is recomputing
C27_Witness ==
    /\ reqs["r1"].pc = "done"
    /\ reqs["r1"].status = 500
    /\ reqs["r1"].calls.get = 1
    /\ reqs["r2"].pc = "waiting"
    /\ reqs["r2"].cacheKey = reqs["r1"].cacheKey
    /\ reqs["r2"].calls.get = 1
    /\ reqs["r1"].cacheKey \notin DOMAIN store

---------------------------------------------------------------------------
(* C28: a comparison with failed markets is cached like any other *)

\* The entries of a comparison that carry an error
ErrorEntries(body) ==
    {i \in 1..Len(body.comparisons) : HasError(body.comparisons[i])}

\* The comparison `req` arrived no later than the time-to-live after the
\* response of request q, `first`, was cached, asks for a permutation of its
\* identifiers, and that response has error entries
RepeatsFailed(req, first, q) ==
    /\ req.kind = "compare" /\ first.kind = "compare"
    /\ q \in req.recent
    /\ ErrorEntries(first.body) # {}
    /\ IsPermutation(marketIdsOf(req.param), marketIdsOf(first.param))

\* The step on which the handler of comparison r builds its response
BuildsComparison(r) ==
    /\ reqs[r].kind = "compare"
    /\ reqs[r].pc = "waiting"
    /\ reqs'[r].pc = "done"

\* C28: the step that builds a comparison response stores it under the
\* request's key with the default time-to-live and counts one set, whether or
\* not entries of it are errors; and a comparison arriving within the
\* time-to-live of a cached comparison with error entries, for a permutation
\* of its identifiers, is answered with that response, errors included, after
\* one cache read and without any upstream call.
C28_ErrorsAreCached ==
    [][/\ \A r \in Reqs :
             BuildsComparison(r)
             => /\ reqs'[r].cacheKey \in DOMAIN store'
                /\ store'[reqs'[r].cacheKey] =
                      CacheEntry(reqs'[r].body, now, cacheTTL * 1000)
                /\ stats'.sets = stats.sets + 1
       /\ \A r, q \in Reqs :
             RepeatsFailed(reqs'[r], reqs'[q], q)
             => /\ reqs'[r].pc = "done"
                /\ reqs'[r].status = 200
                /\ reqs'[r].body.comparisons = reqs'[q].body.comparisons
                /\ reqs'[r].calls = [NoCalls EXCEPT !.get = 1]
                /\ reqs'[r].answers = 0]_vars

\* C28 witness: the first comparison failed for every market, and the second,
\* listing the identifiers in another order, got the same errors from the cache
C28_Witness ==
    \E r, q \in Reqs :
       /\ RepeatsFailed(reqs[r], reqs[q], q)
       /\ reqs[r].param # reqs[q].param
       /\ reqs[q].tasks # <<>>
       /\ ErrorEntries(reqs[q].body) = 1..Len(reqs[q].body.comparisons)
       /\ reqs[r].body.comparisons = reqs[q].body.comparisons
       /\ reqs[r].calls.markets = 0

---------------------------------------------------------------------------
(* C29: the counters of the cache, and the sweep *)

\* The step is a call of the named method of Cache
CacheStep(op) == lastOp'.n # lastOp.n /\ lastOp'.op = op

\* The keys whose entry is older than its time-to-live
OverAge == {k \in DOMAIN store : now - store[k].timestamp > store[k].ttl}

\* C29: every Cache.get adds one to exactly one of hits and misses and leaves
\* sets alone, every Cache.set adds one to sets and leaves hits and misses
\* alone, and delete, clear and cleanup change no counter, so that from the
\* zeroed counters hits + misses counts the get calls and sets the set calls
\* (together never more than the operations called); cleanup removes exactly
\* the entries whose age exceeds their time-to-live and leaves every other
\* entry as it was.
C29_CountersAndSweep ==
    [][/\ CacheStep("get")
          => /\ \/ stats'.hits = stats.hits + 1 /\ stats'.misses = stats.misses
                \/ stats'.hits = stats.hits /\ stats'.misses = stats.misses + 1
             /\ stats'.sets = stats.sets
       /\ CacheStep("set")
          => stats' = [stats EXCEPT !.sets = @ + 1]
       /\ (CacheStep("delete") \/ CacheStep("clear") \/ CacheStep("cleanup"))
          => stats' = stats
       /\ lastOp'.n = lastOp.n => stats' = stats
       /\ stats'.hits + stats'.misses + stats'.sets <= lastOp'.n
       /\ CacheStep("cleanup")
          => /\ DOMAIN store' = DOMAIN store \ OverAge
             /\ \A k \in DOMAIN store' : store'[k] = store[k]]_vars

\* C29 witness: after two sets and a hit, cleanup has removed the entry set
\* for one key, and kept the other key's entry, whose age equals its
\* time-to-live
C29_Witness ==
    /\ lastOp.op = "cleanup"
    /\ stats = [hits |-> 1, misses |-> 0, sets |-> 2]
    /\ \E k1, k2 \in CacheKeys :
          /\ k1 \in DOMAIN store
          /\ now - store[k1].timestamp = store[k1].ttl
          /\ k2 \notin DOMAIN store
          /\ lastSet[k2] # Null

---------------------------------------------------------------------------
(* C30: two requests that miss the cache on the same key *)

\* The step on which the handler of single-market request r answers 200 after
\* a miss
WritesResponse(r) ==
    /\ reqs[r].kind \in SingleKinds
    /\ reqs[r].pc = "waiting"
    /\ reqs'[r].pc = "done"
    /\ reqs'[r].status = 200

\* The upstream calls and cache calls of a single-market request that missed
\* and computed its response
OwnCalls(kind) ==
    [get |-> 1, set |-> 1, markets |-> 1,
     orderbook |-> IF NeedsOrderbook(kind) THEN 1 ELSE 0,
     trades |-> IF NeedsTrades(kind) THEN 1 ELSE 0,
     analyze |-> 1]

\* The entry stored for key k is, whole, the response of a request for k that
\* wrote it at the entry's timestamp, and no request for k wrote later
WholeEntry(cache, rs, k) ==
    \E r \in Reqs :
       /\ rs[r].cacheKey = k
       /\ rs[r].setAt = cache[k].timestamp
       /\ cache[k].data = rs[r].body
       /\ \A q \in Reqs : rs[q].cacheKey = k => rs[q].setAt <= rs[r].setAt

\* C30: requests that miss on one key are not coalesced: a request that
\* answers 200 after its miss has made its own get, its own upstream calls and
\* its own analyzer run, its response is computed from the data its own calls
\* returned, and the step stores exactly that response under the key, leaving
\* the other keys alone; every stored entry is, whole, the response of the
\* request that wrote last.
C30_LastWriterWins ==
    [][/\ \A r \in Reqs :
             WritesResponse(r)
             => LET req == reqs'[r]
                IN  /\ req.calls = OwnCalls(req.kind)
                    /\ req.body = SingleResponse(req, req.tasks[1])
                    /\ req.cacheKey \in DOMAIN store'
                    /\ store'[req.cacheKey] =
                          CacheEntry(req.body, now, cacheTTL * 1000)
                    /\ \A k \in DOMAIN store \ {req.cacheKey} :
                          k \in DOMAIN store' /\ store'[k] = store[k]
                    /\ stats' = [stats EXCEPT !.sets = @ + 1]
       /\ \A k \in DOMAIN store' : WholeEntry(store', reqs', k)]_vars

\* C30 witness: both requests missed on the same key, each computed a
\* response from its own data, the two responses differ, and the entry that
\* remains is the response of r1, which wrote after r2
C30_Witness ==
    /\ reqs["r1"].cacheKey = reqs["r2"].cacheKey
    /\ reqs["r1"].calls = OwnCalls(reqs["r1"].kind)
    /\ reqs["r2"].calls = OwnCalls(reqs["r2"].kind)
    /\ reqs["r1"].status = 200 /\ reqs["r2"].status = 200
    /\ reqs["r1"].body # reqs["r2"].body
    /\ reqs["r2"].setAt < reqs["r1"].setAt
    /\ stats = [hits |-> 0, misses |-> 2, sets |-> 2]
    /\ reqs["r1"].cacheKey \in DOMAIN store
    /\ store[reqs["r1"].cacheKey].data = reqs["r1"].body

=============================================================================
